---- MODULE Spec2Model ----
(***************************************************************************)
(* A model of the brainwave fortune page (m-yac/eighth-dimension).         *)
(*                                                                         *)
(* Two page variants exist: the rich one (src/unnamed/part_000, with the   *)
(* activeness-aware classifier) and the simpler one (src/brainwave.js).    *)
(*                                                                         *)
(* JavaScript strings are sequences of character codes.  A JavaScript      *)
(* value that may be null or NaN is a record [t, v] with t one of "num",   *)
(* "null", "nan".                                                          *)
(***************************************************************************)
EXTENDS Integers, Sequences, FiniteSets

VARIABLES
    search,        \* window.location.search: the query parameters of the page URL
    pending,       \* the identifier the page is about to write to the URL
    lastWrite,     \* the arguments of the last rewrite of the URL
    urlParams,     \* what the last getUrlParams() returned
    decoded,       \* what the decodeId() call of the last getUrlParams() returned
    dataArrays,    \* the map of sample sequences handed to removeRepeatedTail
    tailOnce,      \* removeRepeatedTail(dataArrays)
    tailTwice,     \* removeRepeatedTail(tailOnce)
    tailPc,        \* "input", "once" or "twice": how often the filter has run
    brainwaves,        \* the band record handed to getDominantPattern
    mlAnalysis,        \* the ML record handed to getDominantPattern
    activenessArray,   \* the activeness samples handed to the rich classifier
    activenessState,   \* what getActivenessState returned for them
    dominantPattern,   \* the label getDominantPattern returned
    classifierPc,      \* "input" before the classifier has run, "done" after
    selectorInput,        \* the arguments of a fortune selection
    fortuneMessage,       \* the message the selection returned
    fortuneMessageOther,  \* the message of a second getRandomFortune call
    waveInput,     \* the arguments of generateFrequencyWeightedWave
    wavePath,      \* the points of the path it returned
    rawValues,     \* the band averages handed to normalizeBrainwaves
    normalized,    \* what normalizeBrainwaves returned for them
    pagePc,          \* where fetchBrainwaveData stands: "ready", "timer", "fetch",
                     \* "json", "done" or "failed"
    display,         \* what the page shows
    requests,        \* the bodies of the requests sent, in order
    response,        \* how the fetch settled: "none" before it has, then
                     \* "rejected", "notOk" or "ok"
    data,            \* the parsed body of the response
    rawDataArrays,   \* the band arrays the pipeline works on
    actualRun,       \* the run written to the URL after the fetch
    clock,           \* Date.now(), in milliseconds
    timer,           \* the timeout of the fallback: when it was set, when it is due
    capturedTimestamp,   \* the timestamp the fallback captured
    history,         \* the entries of the session history, the current one last
    caught,          \* how often the catch block has run
    adjustedBrainwaves,   \* the band values updateBrainwaveDisplay has weighted
    boxPercent,   \* the percentages written to the five band boxes
    peakFrequency,  \* the band highlightPeakFrequency has marked, or "none"
    straightArrays,   \* the map handed to detectLongStraightSections
    hasLongStraightSections,  \* what detectLongStraightSections returned for it
    pipelineInput,   \* the band arrays and the activeness field before the tail is removed
    pipelineOutput,  \* the band arrays, the activeness array and removeCount afterwards
    loads,   \* how often the page has been loaded
    loadedSearch,   \* the query parameters the current load started with
    shown   \* the message and the URL each earlier load ended with

urlVars == <<search, pending, lastWrite, urlParams, decoded>>
tailVars == <<dataArrays, tailOnce, tailTwice, tailPc>>
classifierVars == <<brainwaves, mlAnalysis, activenessArray, activenessState,
                    dominantPattern, classifierPc>>
selectorVars == <<selectorInput, fortuneMessage, fortuneMessageOther>>
waveVars == <<waveInput, wavePath>>
normalizerVars == <<rawValues, normalized>>
pageVars == <<pagePc, display, requests, response, data, rawDataArrays,
              actualRun, clock, timer, capturedTimestamp, history, caught>>
boxVars == <<adjustedBrainwaves, boxPercent, peakFrequency>>
straightVars == <<straightArrays, hasLongStraightSections>>
pipelineVars == <<pipelineInput, pipelineOutput>>
loadVars == <<loads, loadedSearch, shown>>

vars == <<urlVars, tailVars, classifierVars, selectorVars, waveVars,
          normalizerVars, pageVars, boxVars, straightVars, pipelineVars,
          loadVars>>

\* The variables of the other components, which a component's actions leave alone.
nonUrlVars == <<tailVars, classifierVars, selectorVars, waveVars,
                normalizerVars, pageVars, boxVars, straightVars, pipelineVars,
                loadVars>>
nonTailVars == <<urlVars, classifierVars, selectorVars, waveVars,
                 normalizerVars, pageVars, boxVars, straightVars, pipelineVars,
                 loadVars>>
nonClassifierVars == <<urlVars, tailVars, selectorVars, waveVars,
                       normalizerVars, pageVars, boxVars, straightVars,
                       pipelineVars, loadVars>>
nonSelectorVars == <<urlVars, tailVars, classifierVars, waveVars,
                     normalizerVars, pageVars, boxVars, straightVars,
                     pipelineVars, loadVars>>
nonWaveVars == <<urlVars, tailVars, classifierVars, selectorVars,
                 normalizerVars, pageVars, boxVars, straightVars, pipelineVars,
                 loadVars>>
nonNormalizerVars == <<urlVars, tailVars, classifierVars, selectorVars,
                       waveVars, pageVars, boxVars, straightVars, pipelineVars,
                       loadVars>>
\* The page load reads and rewrites the URL.
nonPageVars == <<tailVars, classifierVars, selectorVars, waveVars,
                 normalizerVars, boxVars, straightVars, pipelineVars,
                 loadVars>>

(***************************************************************************)
(* Bounds of the model.                                                    *)
(***************************************************************************)
MaxRun == 10000
MaxTimestamp == 3000
MaxTokenLen == 3
MaxLen == 4
MaxActivenessLen == 10
MaxUnits == 9

(***************************************************************************)
(* JavaScript values.                                                      *)
(***************************************************************************)
Num(n) == [t |-> "num", v |-> n]
Null == [t |-> "null", v |-> 0]
NaN == [t |-> "nan", v |-> 0]

\* What no call has produced yet.
None == [mode |-> "none"]

\* No fortune selection is under way.
SelectorIdle ==
    /\ selectorInput = None
    /\ fortuneMessage = None
    /\ fortuneMessageOther = None

\* No waveform is being drawn.
WaveIdle ==
    /\ waveInput = None
    /\ wavePath = None

\* No normalisation is under way.
NormalizerIdle ==
    /\ rawValues = None
    /\ normalized = None

\* No page load is under way.
PageIdle ==
    /\ pagePc = "idle"
    /\ display = None
    /\ requests = <<>>
    /\ response = "none"
    /\ data = None
    /\ rawDataArrays = None
    /\ actualRun = None
    /\ clock = 0
    /\ timer = None
    /\ capturedTimestamp = None
    /\ history = <<>>
    /\ caught = 0

\* The band boxes have not been filled.
BoxesIdle ==
    /\ adjustedBrainwaves = None
    /\ boxPercent = None
    /\ peakFrequency = "unset"

\* No map has been searched for straight sections.
StraightIdle ==
    /\ straightArrays = None
    /\ hasLongStraightSections = "unset"

\* No response is being trimmed.
PipelineIdle ==
    /\ pipelineInput = None
    /\ pipelineOutput = None

\* The page has not been loaded.
LoadIdle ==
    /\ loads = 0
    /\ loadedSearch = None
    /\ shown = <<>>

(***************************************************************************)
(* Character codes.                                                        *)
(***************************************************************************)
ChMinus == 45
ChZero == 48
ChEquals == 61
ChLowerF == 102
ChLowerX == 120

IsDigit(c) == c >= 48 /\ c <= 57

IsWhitespace(c) == c \in {9, 10, 12, 13, 32}

RECURSIVE DigitsOf(_)
DigitsOf(n) ==
    IF n < 10 THEN <<ChZero + n>>
    ELSE Append(DigitsOf(n \div 10), ChZero + (n % 10))

\* `${n}` of an integer n.
NumberToString(n) == IF n < 0 THEN <<ChMinus>> \o DigitsOf(-n) ELSE DigitsOf(n)

RECURSIVE AllDigits(_)
AllDigits(s) ==
    IF s = <<>> THEN TRUE
    ELSE IsDigit(Head(s)) /\ AllDigits(Tail(s))

\* The regular expression \d+ against the whole of s.
IsDigits(s) == s # <<>> /\ AllDigits(s)

RECURSIVE DigitsValue(_, _)
DigitsValue(s, acc) ==
    IF s = <<>> \/ ~IsDigit(Head(s)) THEN acc
    ELSE DigitsValue(Tail(s), acc * 10 + (Head(s) - ChZero))

RECURSIVE SkipWhitespace(_)
SkipWhitespace(s) ==
    IF s # <<>> /\ IsWhitespace(Head(s)) THEN SkipWhitespace(Tail(s)) ELSE s

HexDigit(c) ==
    IF IsDigit(c) THEN c - 48
    ELSE IF c >= 97 /\ c <= 102 THEN c - 87
    ELSE IF c >= 65 /\ c <= 70 THEN c - 55
    ELSE -1

RECURSIVE HexValue(_, _)
HexValue(s, acc) ==
    IF s = <<>> \/ HexDigit(Head(s)) < 0 THEN acc
    ELSE HexValue(Tail(s), acc * 16 + HexDigit(Head(s)))

\* parseInt(s) with no radix: leading white space is skipped, a sign is read, a 0x
\* prefix selects base 16, the longest prefix of digits is the value and NaN is
\* the answer when there is no digit.
ParseInt(s) ==
    LET t == SkipWhitespace(s)
        neg == t # <<>> /\ Head(t) = ChMinus
        signed == t # <<>> /\ Head(t) \in {ChMinus, 43}
        u == IF signed THEN Tail(t) ELSE t
        hex == Len(u) >= 2 /\ u[1] = ChZero /\ u[2] \in {ChLowerX, 88}
        body == IF hex THEN Tail(Tail(u)) ELSE u
        none == IF hex THEN body = <<>> \/ HexDigit(Head(body)) < 0
                ELSE body = <<>> \/ ~IsDigit(Head(body))
        mag == IF hex THEN HexValue(body, 0) ELSE DigitsValue(body, 0)
    IN  IF none THEN NaN ELSE Num(IF neg THEN -mag ELSE mag)

(***************************************************************************)
(* Integer operators of JavaScript.                                        *)
(***************************************************************************)
RECURSIVE XorNat(_, _)
XorNat(a, b) ==
    IF a = 0 THEN b
    ELSE IF b = 0 THEN a
    ELSE (((a % 2) + (b % 2)) % 2) + 2 * XorNat(a \div 2, b \div 2)

\* a ^ b on two's complement integers (~a is -a-1).
BitXor(a, b) ==
    IF a >= 0 /\ b >= 0 THEN XorNat(a, b)
    ELSE IF a < 0 /\ b < 0 THEN XorNat(-a - 1, -b - 1)
    ELSE IF a < 0 THEN -XorNat(-a - 1, b) - 1
    ELSE -XorNat(a, -b - 1) - 1

\* The integer a bitwise operator makes of the quotient a / b (b > 0): the
\* fraction is dropped, towards zero.
TruncDiv(a, b) == IF a >= 0 THEN a \div b ELSE -((-a) \div b)

(***************************************************************************)
(* btoa and atob.                                                          *)
(***************************************************************************)
B64Char(i) ==
    IF i < 26 THEN 65 + i
    ELSE IF i < 52 THEN 97 + (i - 26)
    ELSE IF i < 62 THEN 48 + (i - 52)
    ELSE IF i = 62 THEN 43
    ELSE 47

B64Index(c) ==
    IF c >= 65 /\ c <= 90 THEN c - 65
    ELSE IF c >= 97 /\ c <= 122 THEN c - 97 + 26
    ELSE IF c >= 48 /\ c <= 57 THEN c - 48 + 52
    ELSE IF c = 43 THEN 62
    ELSE IF c = 47 THEN 63
    ELSE -1

RECURSIVE Btoa(_)
Btoa(bytes) ==
    IF bytes = <<>> THEN <<>>
    ELSE IF Len(bytes) = 1 THEN
        <<B64Char(bytes[1] \div 4), B64Char((bytes[1] % 4) * 16), ChEquals, ChEquals>>
    ELSE IF Len(bytes) = 2 THEN
        <<B64Char(bytes[1] \div 4),
          B64Char((bytes[1] % 4) * 16 + bytes[2] \div 16),
          B64Char((bytes[2] % 16) * 4), ChEquals>>
    ELSE
        <<B64Char(bytes[1] \div 4),
          B64Char((bytes[1] % 4) * 16 + bytes[2] \div 16),
          B64Char((bytes[2] % 16) * 4 + bytes[3] \div 64),
          B64Char(bytes[3] % 64)>> \o Btoa(SubSeq(bytes, 4, Len(bytes)))

\* s.replace(/=+$/, '')
RECURSIVE StripPadding(_)
StripPadding(s) ==
    IF s # <<>> /\ s[Len(s)] = ChEquals
    THEN StripPadding(SubSeq(s, 1, Len(s) - 1))
    ELSE s

\* '='.repeat(n)
Repeat(c, n) == [i \in 1..n |-> c]

RemoveWhitespace(s) == SelectSeq(s, LAMBDA c : ~IsWhitespace(c))

RECURSIVE AtobGroups(_)
AtobGroups(s) ==
    IF Len(s) = 0 THEN <<>>
    ELSE IF Len(s) = 2 THEN
        <<B64Index(s[1]) * 4 + B64Index(s[2]) \div 16>>
    ELSE IF Len(s) = 3 THEN
        <<B64Index(s[1]) * 4 + B64Index(s[2]) \div 16,
          (B64Index(s[2]) % 16) * 16 + B64Index(s[3]) \div 4>>
    ELSE
        <<B64Index(s[1]) * 4 + B64Index(s[2]) \div 16,
          (B64Index(s[2]) % 16) * 16 + B64Index(s[3]) \div 4,
          (B64Index(s[3]) % 4) * 64 + B64Index(s[4])>> \o AtobGroups(SubSeq(s, 5, Len(s)))

\* atob(s): white space is removed, one or two '=' are dropped from the end of a
\* string whose length is a multiple of 4, and the call throws when the rest has
\* a length of 1 modulo 4 or a character outside the alphabet.
Atob(s) ==
    LET w == RemoveWhitespace(s)
        n == Len(w)
        cut == IF n > 0 /\ n % 4 = 0
               THEN IF w[n] = ChEquals /\ w[n - 1] = ChEquals THEN 2
                    ELSE IF w[n] = ChEquals THEN 1 ELSE 0
               ELSE 0
        d == SubSeq(w, 1, n - cut)
        bad == Len(d) % 4 = 1 \/ \E i \in 1..Len(d) : B64Index(d[i]) < 0
    IN  IF bad THEN [ok |-> FALSE, text |-> <<>>]
        ELSE [ok |-> TRUE, text |-> AtobGroups(d)]

(***************************************************************************)
(* The identifier codec.                                                   *)
(***************************************************************************)
EncodeIdNoXor(headband, run) ==
    StripPadding(Btoa(NumberToString(headband + 37) \o <<ChLowerX>>
                      \o NumberToString((run * 17) + 531)))

EncodeId(headband, run) ==
    LET obfuscatedHeadband == BitXor(headband, 11) + 37
        obfuscatedRun == (BitXor(run, 42) * 17) + 531
        idString == NumberToString(obfuscatedHeadband) \o <<ChLowerX>> \o NumberToString(obfuscatedRun)
    IN  StripPadding(Btoa(idString))

EncodeRandomFortuneTimestampNoPrefix(timestamp) ==
    StripPadding(Btoa(NumberToString(timestamp)))

EncodeRandomFortuneTimestamp(timestamp) ==
    LET idString == <<ChLowerF>> \o NumberToString(timestamp)
    IN  StripPadding(Btoa(idString))

\* decoded.match(/^f(\d+)$/)
FortuneMatch(text) ==
    Len(text) >= 2 /\ text[1] = ChLowerF /\ IsDigits(Tail(text))

\* decoded.match(/^(\d+)x(-?\d+)$/): neither \d nor - matches an x, so the x of a
\* match is the first x of the text.
DataMatch(text) ==
    \E p \in 1..Len(text) :
        /\ text[p] = ChLowerX
        /\ IsDigits(SubSeq(text, 1, p - 1))
        /\ LET rest == SubSeq(text, p + 1, Len(text))
           IN  IF rest # <<>> /\ rest[1] = ChMinus
               THEN IsDigits(Tail(rest))
               ELSE IsDigits(rest)

XPosition(text) == CHOOSE p \in 1..Len(text) : text[p] = ChLowerX

DecodeIdThrowing(encodedId) ==
    LET r == Atob(encodedId \o Repeat(ChEquals, (4 - (Len(encodedId) % 4)) % 4))
    IN  IF ~r.ok THEN [mode |-> "thrown"]
        ELSE IF FortuneMatch(r.text)
        THEN [mode |-> "fortune", timestamp |-> ParseInt(Tail(r.text)).v]
        ELSE [mode |-> "null"]

\* decodeId(encodedId); [mode |-> "null"] is the null it returns, also from its
\* catch block when atob throws.
DecodeId(encodedId) ==
    LET padding == Repeat(ChEquals, (4 - (Len(encodedId) % 4)) % 4)
        r == Atob(encodedId \o padding)
    IN  IF ~r.ok THEN [mode |-> "null"]
        ELSE IF FortuneMatch(r.text)
        THEN [mode |-> "fortune", timestamp |-> ParseInt(Tail(r.text)).v]
        ELSE IF DataMatch(r.text)
        THEN LET p == XPosition(r.text)
                 obfuscatedHeadband == ParseInt(SubSeq(r.text, 1, p - 1)).v
                 obfuscatedRun == ParseInt(SubSeq(r.text, p + 1, Len(r.text))).v
             IN  [mode |-> "data",
                  headband |-> Num(BitXor(obfuscatedHeadband - 37, 11)),
                  run |-> Num(BitXor(TruncDiv(obfuscatedRun - 531, 17), 42))]
        ELSE [mode |-> "null"]

(***************************************************************************)
(* The query string.  A parameter is [has, s]: params.get(key) is null     *)
(* when has is FALSE and the string s otherwise.                           *)
(***************************************************************************)
Absent == [has |-> FALSE, s |-> <<>>]
Str(s) == [has |-> TRUE, s |-> s]

\* A JavaScript string is truthy unless it is empty; null is falsy.
Truthy(p) == p.has /\ p.s # <<>>

\* a || b
OrElse(a, b) == IF Truthy(a) THEN a ELSE b

\* x !== null ? parseInt(x) : null
ParseOrNull(p) == IF p.has THEN ParseInt(p.s) ELSE Null

\* The decodeId call of getUrlParams: None when the id parameter is missing or empty.
GetUrlParamsDecoded(q) == IF Truthy(q.id) THEN DecodeId(q.id.s) ELSE None

GetUrlParams(q) ==
    LET d == GetUrlParamsDecoded(q)
        run == OrElse(q.r, q.run)
        headband == OrElse(q.h, q.headband)
    IN  IF d.mode \in {"data", "fortune"} THEN d
        ELSE [mode |-> "data", run |-> ParseOrNull(run), headband |-> ParseOrNull(headband)]

RECURSIVE SeqsUpTo(_, _)
SeqsUpTo(S, n) ==
    IF n = 0 THEN {<<>>}
    ELSE LET shorter == SeqsUpTo(S, n - 1)
         IN  shorter \cup {Append(q, c) : q \in shorter, c \in S}

(***************************************************************************)
(* The tail deduplicator.  A map of sequences is a function from its keys  *)
(* to sequences; sequences are indexed from 1, the arrays of the code from *)
(* 0.                                                                      *)
(***************************************************************************)
Min(S) == CHOOSE x \in S : \A y \in S : x <= y

\* Math.min over the lengths of the arrays
MinLength(d) == Min({Len(d[key]) : key \in DOMAIN d})

\* allRepeated at index i: dataArrays[key][i] === dataArrays[key][i - 1] for every key
AllRepeated(d, i) == \A key \in DOMAIN d : d[key][i] = d[key][i - 1]

AnyRepeated(d, i) == \E key \in DOMAIN d : d[key][i] = d[key][i - 1]

\* The loop from index i down: it stops at the first index where not all repeat.
RECURSIVE RemoveCount(_, _)
RemoveCount(d, i) ==
    IF i < 2 THEN 0
    ELSE IF AllRepeated(d, i) THEN 1 + RemoveCount(d, i - 1)
    ELSE 0

RECURSIVE RemoveCountNoBreak(_, _)
RemoveCountNoBreak(d, i) ==
    IF i < 2 THEN 0
    ELSE (IF AllRepeated(d, i) THEN 1 ELSE 0) + RemoveCountNoBreak(d, i - 1)

RECURSIVE RemoveCountAnyKey(_, _)
RemoveCountAnyKey(d, i) ==
    IF i < 2 THEN 0
    ELSE IF AnyRepeated(d, i) THEN 1 + RemoveCountAnyKey(d, i - 1)
    ELSE 0

\* array.slice(0, -n) for n > 0
SliceOff(a, n) == SubSeq(a, 1, Len(a) - n)

RemoveRepeatedTailNoBreak(d) ==
    IF MinLength(d) <= 1 THEN d
    ELSE LET removeCount == RemoveCountNoBreak(d, MinLength(d))
         IN  IF removeCount > 0
             THEN [key \in DOMAIN d |-> SliceOff(d[key], removeCount)]
             ELSE d

RemoveRepeatedTailAnyKey(d) ==
    IF MinLength(d) <= 1 THEN d
    ELSE LET removeCount == RemoveCountAnyKey(d, MinLength(d))
         IN  IF removeCount > 0
             THEN [key \in DOMAIN d |-> SliceOff(d[key], removeCount)]
             ELSE d

\* removeRepeatedTail(dataArrays), for a map with at least one key whose values
\* are all arrays.
RemoveRepeatedTail(d) ==
    LET minLength == MinLength(d)
    IN  IF minLength <= 1 THEN d
        ELSE LET removeCount == RemoveCount(d, minLength)
             IN  IF removeCount > 0
                 THEN [key \in DOMAIN d |-> SliceOff(d[key], removeCount)]
                 ELSE d

TailKeys == {"alpha", "beta"}
SampleValues == {1, 2, 3}
SampleSeqs == SeqsUpTo(SampleValues, MaxLen)

NoArrays == [key \in TailKeys |-> <<>>]

TailIdle ==
    /\ dataArrays = NoArrays
    /\ tailOnce = NoArrays
    /\ tailTwice = NoArrays
    /\ tailPc = "idle"

InitTail ==
    /\ dataArrays \in [TailKeys -> SampleSeqs]
    /\ tailOnce = NoArrays
    /\ tailTwice = NoArrays
    /\ tailPc = "input"

\* rawDataArrays = removeRepeatedTail(rawDataArrays)
Trim ==
    /\ tailPc = "input"
    /\ tailOnce' = RemoveRepeatedTail(dataArrays)
    /\ tailPc' = "once"
    /\ UNCHANGED <<dataArrays, tailTwice, nonTailVars>>

\* The filter applied to its own output.
TrimAgain ==
    /\ tailPc = "once"
    /\ tailTwice' = RemoveRepeatedTail(tailOnce)
    /\ tailPc' = "twice"
    /\ UNCHANGED <<dataArrays, tailOnce, nonTailVars>>

NextTail ==
    \/ Trim
    \/ TrimAgain

(***************************************************************************)
(* The activeness state (rich variant).  An activeness sample is a whole   *)
(* number of sixths: the sample n stands for n/6, so that 1/3 and 2/3 are  *)
(* samples.                                                                *)
(***************************************************************************)
ActivenessDenominator == 6

\* value >= 2/3
AtLeastTwoThirds(num, den) == 3 * num >= 2 * den

\* value >= 1/3
AtLeastOneThird(num, den) == 3 * num >= den

IsActiveSample(value) == AtLeastTwoThirds(value, ActivenessDenominator)
IsClearSample(value) ==
    ~AtLeastTwoThirds(value, ActivenessDenominator)
        /\ AtLeastOneThird(value, ActivenessDenominator)
IsMeditationSample(value) == ~AtLeastOneThird(value, ActivenessDenominator)

\* The three counters after the forEach.
ActiveCount(a) == Cardinality({i \in 1..Len(a) : IsActiveSample(a[i])})
ClearCount(a) == Cardinality({i \in 1..Len(a) : IsClearSample(a[i])})
MeditationCount(a) == Cardinality({i \in 1..Len(a) : IsMeditationSample(a[i])})

GetActivenessStateStrict(a) ==
    IF Len(a) = 0 THEN "null"
    ELSE IF 3 * ActiveCount(a) > 2 * Len(a) THEN "active"
    ELSE IF 3 * ClearCount(a) > 2 * Len(a) THEN "clear"
    ELSE IF 3 * MeditationCount(a) > 2 * Len(a) THEN "meditation"
    ELSE "generic"

\* getActivenessState(activenessArray); "null" is the null it returns.
GetActivenessState(a) ==
    IF Len(a) = 0 THEN "null"
    ELSE LET total == Len(a)
             activeCount == ActiveCount(a)
             clearCount == ClearCount(a)
             meditationCount == MeditationCount(a)
         IN  IF AtLeastTwoThirds(activeCount, total) THEN "active"
             ELSE IF AtLeastTwoThirds(clearCount, total) THEN "clear"
             ELSE IF AtLeastTwoThirds(meditationCount, total) THEN "meditation"
             ELSE "generic"

(***************************************************************************)
(* The dominant pattern (rich variant).  The weights Math.pow(f, 0.5) are  *)
(* written in tenths: 3.2, 4.6, 5.5, 0.7 and 2.4.  A proportion is the     *)
(* weighted value of a band over the total of the five, and two            *)
(* proportions are compared by their numerators.                           *)
(***************************************************************************)
Bands == {"alpha", "beta", "gamma", "delta", "theta"}

\* Math.pow(10, 0.5), Math.pow(21, 0.5), Math.pow(30, 0.5), Math.pow(0.5, 0.5),
\* Math.pow(6, 0.5), in tenths
ClassifierWeight == [alpha |-> 32, beta |-> 46, gamma |-> 55, delta |-> 7, theta |-> 24]

\* dominant_cutoff = 0.225 = 9/40
DominantCutoffNum == 9
DominantCutoffDen == 40

\* const waves = { alpha, beta, gamma, theta, delta }: the order of Object.entries
WaveOrder == <<"alpha", "beta", "gamma", "theta", "delta">>

WaveOrderDeltaFirst == <<"delta", "theta", "gamma", "beta", "alpha">>

\* alpha *= Math.pow(...), ...
WeightedWaves(b) == [wave \in Bands |-> b[wave] * ClassifierWeight[wave]]

\* const total = alpha + beta + gamma + delta + theta
WeightedTotal(w) == w.alpha + w.beta + w.gamma + w.delta + w.theta

\* value > dominant_cutoff, for value = num / total (NaN when the total is 0)
AboveCutoff(num, total) ==
    total > 0 /\ num * DominantCutoffDen > DominantCutoffNum * total

AtOrAboveCutoff(num, total) ==
    total > 0 /\ num * DominantCutoffDen >= DominantCutoffNum * total

\* The loop over Object.entries(waves) from entry i on; best is maxWave and the
\* numerator of maxValue.
RECURSIVE ScanWaves(_, _, _, _, _)
ScanWaves(w, total, order, i, best) ==
    IF i > Len(order) THEN best
    ELSE LET value == w[order[i]]
         IN  IF total > 0 /\ value > best.maxValue /\ AboveCutoff(value, total)
             THEN ScanWaves(w, total, order, i + 1, [maxWave |-> order[i], maxValue |-> value])
             ELSE ScanWaves(w, total, order, i + 1, best)

RECURSIVE ScanWavesInclusive(_, _, _, _, _)
ScanWavesInclusive(w, total, order, i, best) ==
    IF i > Len(order) THEN best
    ELSE LET value == w[order[i]]
         IN  IF total > 0 /\ value > best.maxValue /\ AtOrAboveCutoff(value, total)
             THEN ScanWavesInclusive(w, total, order, i + 1, [maxWave |-> order[i], maxValue |-> value])
             ELSE ScanWavesInclusive(w, total, order, i + 1, best)

\* let maxWave = null; let maxValue = 0 and the loop
MaxWave(b) ==
    LET w == WeightedWaves(b)
    IN  ScanWaves(w, WeightedTotal(w), WaveOrder, 1, [maxWave |-> "null", maxValue |-> 0]).maxWave

Label(maxWave, state) ==
    IF maxWave = "null" THEN "balanced"
    ELSE IF state = "null" THEN maxWave \o "_generic"
    ELSE maxWave \o "_" \o state

GetDominantPatternInclusive(b, ml, a) ==
    LET w == WeightedWaves(b)
    IN  Label(ScanWavesInclusive(w, WeightedTotal(w), WaveOrder, 1,
                                 [maxWave |-> "null", maxValue |-> 0]).maxWave,
              GetActivenessState(a))

GetDominantPatternNoGeneric(b, ml, a) ==
    IF MaxWave(b) = "null" \/ GetActivenessState(a) = "null" THEN "balanced"
    ELSE MaxWave(b) \o "_" \o GetActivenessState(a)

GetDominantPatternDeltaFirst(b, ml, a) ==
    LET w == WeightedWaves(b)
    IN  Label(ScanWaves(w, WeightedTotal(w), WaveOrderDeltaFirst, 1,
                        [maxWave |-> "null", maxValue |-> 0]).maxWave,
              GetActivenessState(a))

\* The label put together from the band and the state whatever the state is.
GetDominantPatternNullState(b, ml, a) ==
    IF MaxWave(b) = "null" THEN "balanced"
    ELSE MaxWave(b) \o "_" \o GetActivenessState(a)

\* getDominantPattern(brainwaves, mlAnalysis, activenessArray) of the rich variant
GetDominantPattern(b, ml, a) ==
    LET activenessState_ == GetActivenessState(a)
        maxWave == MaxWave(b)
    IN  IF maxWave = "null" THEN "balanced"
        ELSE IF activenessState_ = "null" THEN maxWave \o "_generic"
        ELSE maxWave \o "_" \o activenessState_

(***************************************************************************)
(* The dominant pattern (simpler variant, src/brainwave.js).  Scores and   *)
(* proportions are in hundredths.                                          *)
(***************************************************************************)
MlCutoff == 70
MeditationCutoff == 60
BandCutoff == 25

Max(S) == CHOOSE x \in S : \A y \in S : y <= x

\* const waves = { alpha, beta, gamma, theta }
SimpleWaveOrder == <<"alpha", "beta", "gamma", "theta">>

\* The loop over Object.entries(waves) from entry i on.
RECURSIVE ScanSimpleWaves(_, _, _)
ScanSimpleWaves(b, i, best) ==
    IF i > Len(SimpleWaveOrder) THEN best
    ELSE LET wave == SimpleWaveOrder[i]
             value == b[wave]
         IN  IF value > best.maxValue /\ value > BandCutoff
             THEN ScanSimpleWaves(b, i + 1, [maxWave |-> "high_" \o wave, maxValue |-> value])
             ELSE ScanSimpleWaves(b, i + 1, best)

GetDominantPatternSimpleOneCutoff(b, ml) ==
    LET mlMax == Max({ml.focus, ml.clear, ml.meditation, ml.dream})
    IN  IF ml.meditation = mlMax /\ ml.meditation > MlCutoff THEN "high_meditation"
        ELSE IF ml.focus = mlMax /\ ml.focus > MlCutoff THEN "high_focus"
        ELSE IF ml.clear = mlMax /\ ml.clear > MlCutoff THEN "high_clear"
        ELSE IF ml.dream = mlMax /\ ml.dream > MlCutoff THEN "high_dream"
        ELSE ScanSimpleWaves(b, 1, [maxWave |-> "balanced", maxValue |-> 0]).maxWave

\* getDominantPattern(brainwaves, mlAnalysis) of the simpler variant
GetDominantPatternSimple(b, ml) ==
    LET mlMax == Max({ml.focus, ml.clear, ml.meditation, ml.dream})
    IN  IF ml.meditation = mlMax /\ ml.meditation > MeditationCutoff THEN "high_meditation"
        ELSE IF ml.focus = mlMax /\ ml.focus > MlCutoff THEN "high_focus"
        ELSE IF ml.clear = mlMax /\ ml.clear > MlCutoff THEN "high_clear"
        ELSE IF ml.dream = mlMax /\ ml.dream > MlCutoff THEN "high_dream"
        ELSE ScanSimpleWaves(b, 1, [maxWave |-> "balanced", maxValue |-> 0]).maxWave

(***************************************************************************)
(* The classifier's inputs and its call.                                   *)
(***************************************************************************)
\* Samples below 1/3, at 1/3 and at 2/3.
ActivenessValues == {0, 2, 4}

\* The least common multiple of the five weights.
WeightUnit == 32 * 3 * 5 * 7 * 11 * 23

\* Band powers whose weighted value is a whole number of units, so that a
\* proportion of exactly 9/40 occurs.
BandGrid(wave) == {k * (WeightUnit \div ClassifierWeight[wave]) : k \in 0..MaxUnits}

NoMl == [focus |-> 0, clear |-> 0, meditation |-> 0, dream |-> 0]
NoBands == [alpha |-> 0, beta |-> 0, gamma |-> 0, delta |-> 0, theta |-> 0]

\* Activeness arrays of the five outcomes: none, active, clear, meditation, generic.
ActivenessCases == {<<>>, <<4, 6, 1>>, <<2, 3>>, <<0, 1, 5>>, <<5, 3, 1>>}

ClassifierIdle ==
    /\ brainwaves = NoBands
    /\ mlAnalysis = NoMl
    /\ activenessArray = <<>>
    /\ activenessState = "unset"
    /\ dominantPattern = "unset"
    /\ classifierPc = "idle"

InitActiveness ==
    /\ brainwaves = NoBands
    /\ mlAnalysis = NoMl
    /\ activenessArray \in SeqsUpTo(ActivenessValues, MaxActivenessLen)
    /\ activenessState = "unset"
    /\ dominantPattern = "unset"
    /\ classifierPc = "input"

\* const activenessState = getActivenessState(activenessArray)
ComputeActivenessState ==
    /\ classifierPc = "input"
    /\ activenessState' = GetActivenessState(activenessArray)
    /\ classifierPc' = "done"
    /\ UNCHANGED <<brainwaves, mlAnalysis, activenessArray, dominantPattern, nonClassifierVars>>

InitRich ==
    /\ brainwaves \in [alpha : BandGrid("alpha"), beta : BandGrid("beta"),
                       gamma : BandGrid("gamma"), delta : BandGrid("delta"),
                       theta : BandGrid("theta")]
    /\ mlAnalysis = NoMl
    /\ activenessArray = <<>>
    /\ activenessState = "unset"
    /\ dominantPattern = "unset"
    /\ classifierPc = "input"

\* const dominantPattern = getDominantPattern(brainwaves, mlAnalysis, activenessArray)
Classify ==
    /\ classifierPc = "input"
    /\ \E a \in ActivenessCases :
          /\ activenessArray' = a
          /\ activenessState' = GetActivenessState(a)
          /\ dominantPattern' = GetDominantPattern(brainwaves, mlAnalysis, a)
    /\ classifierPc' = "done"
    /\ UNCHANGED <<brainwaves, mlAnalysis, nonClassifierVars>>

\* ML scores and band proportions around the cutoffs, in hundredths.
MlLevels == {0, 60, 65, 70, 75}
SimpleBandLevels == {0, 25, 30}

InitSimple ==
    /\ brainwaves \in [alpha : SimpleBandLevels, beta : SimpleBandLevels,
                       gamma : SimpleBandLevels, delta : {0}, theta : SimpleBandLevels]
    /\ mlAnalysis \in [focus : MlLevels, clear : MlLevels, meditation : MlLevels,
                       dream : MlLevels]
    /\ activenessArray = <<>>
    /\ activenessState = "unset"
    /\ dominantPattern = "unset"
    /\ classifierPc = "input"

\* const dominantPattern = getDominantPattern(brainwaves, mlAnalysis)
ClassifySimple ==
    /\ classifierPc = "input"
    /\ dominantPattern' = GetDominantPatternSimple(brainwaves, mlAnalysis)
    /\ classifierPc' = "done"
    /\ UNCHANGED <<brainwaves, mlAnalysis, activenessArray, activenessState, nonClassifierVars>>

(***************************************************************************)
(* The page URL: what a visitor may have typed, the two rewrites of the    *)
(* query string and the read of it at page load.                           *)
(***************************************************************************)
MaxHeadband == 10

\* Characters of the tokens a visitor may put in the id parameter: Z j E = !
\* ("ZjE" is the token of "f1").
TokenAlphabet == {90, 106, 69, 61, 33}

ForeignTokens == SeqsUpTo(TokenAlphabet, MaxTokenLen)

\* Values of a legacy parameter: missing, empty, "7", "12", "a".
LegacyValues == {Absent, Str(<<>>), Str(<<55>>), Str(<<49, 50>>), Str(<<97>>)}

NoParams == [id |-> Absent, r |-> Absent, run |-> Absent, h |-> Absent, headband |-> Absent]

\* Either a visitor's URL, or a bare URL and an identifier to write to it.
InitUrl ==
    /\ \/ /\ search \in [id : {Absent} \cup {Str(t) : t \in ForeignTokens},
                         r : LegacyValues \ {Str(<<49, 50>>)},
                         run : LegacyValues \ {Str(<<55>>)},
                         h : LegacyValues \ {Str(<<49, 50>>)},
                         headband : LegacyValues \ {Str(<<55>>)}]
          /\ pending = None
       \/ /\ search = NoParams
          /\ pending \in [mode : {"data"}, headband : 0..MaxHeadband, run : 1..MaxRun]
                         \cup [mode : {"fortune"}, timestamp : 0..MaxTimestamp]
    /\ lastWrite = None
    /\ urlParams = None
    /\ decoded = None

\* updateUrlParams(headband, run): url.search = '' and the id parameter set.
UpdateUrlParams ==
    /\ pending.mode = "data"
    /\ search' = [NoParams EXCEPT !.id = Str(EncodeId(pending.headband, pending.run))]
    /\ lastWrite' = pending
    /\ pending' = None
    /\ UNCHANGED <<urlParams, decoded, nonUrlVars>>

\* updateUrlParamsForRandomFortune(timestamp)
UpdateUrlParamsForRandomFortune ==
    /\ pending.mode = "fortune"
    /\ search' = [NoParams EXCEPT !.id = Str(EncodeRandomFortuneTimestamp(pending.timestamp))]
    /\ lastWrite' = pending
    /\ pending' = None
    /\ UNCHANGED <<urlParams, decoded, nonUrlVars>>

\* getUrlParams() at a page load.
ReadUrlParams ==
    /\ pending = None
    /\ urlParams = None
    /\ urlParams' = GetUrlParams(search)
    /\ decoded' = GetUrlParamsDecoded(search)
    /\ UNCHANGED <<search, pending, lastWrite, nonUrlVars>>

NextCodec ==
    \/ UpdateUrlParams
    \/ UpdateUrlParamsForRandomFortune
    \/ ReadUrlParams

InitCodec ==
    InitUrl /\ TailIdle /\ ClassifierIdle /\ SelectorIdle /\ WaveIdle
        /\ NormalizerIdle /\ PageIdle
        /\ BoxesIdle
        /\ StraightIdle
        /\ PipelineIdle
        /\ LoadIdle

SpecCodec == InitCodec /\ [][NextCodec]_vars

(***************************************************************************)
(* Claims about the identifier codec (SpecCodec).                          *)
(***************************************************************************)

\* C1: once encodeId(headband, run) has been written to the URL, with headband
\* in 0..10 and run in 1..MaxRun, decodeId of that token is the record
\* {mode: 'data', headband, run} of the same headband and run.
C1_DataRoundTrip ==
    (lastWrite.mode = "data" /\ urlParams # None) =>
        decoded = [mode |-> "data",
                   headband |-> Num(lastWrite.headband),
                   run |-> Num(lastWrite.run)]

C1_Witness ==
    /\ lastWrite = [mode |-> "data", headband |-> MaxHeadband, run |-> MaxRun]
    /\ decoded.mode = "data"
    /\ decoded.run = Num(MaxRun)

LegacyRead(first, second) ==
    IF Truthy(first) THEN ParseInt(first.s)
    ELSE IF second.has THEN ParseInt(second.s)
    ELSE Null

\* C3: decodeId returns and does not throw; it returns null for a token that
\* atob rejects or whose text matches neither f<digits> nor
\* <digits>x<optional minus><digits>; and when it returned null for the id
\* parameter, getUrlParams returns a data-mode record whose headband and run are
\* read from the keys h/headband and r/run, null when the keys are missing.
C3_DecodeFailureFallsBack ==
    (urlParams # None /\ decoded # None) =>
        LET id == search.id.s
            text == Atob(id \o Repeat(ChEquals, (4 - (Len(id) % 4)) % 4))
        IN  /\ decoded.mode \in {"null", "data", "fortune"}
            /\ (~text.ok \/ (~FortuneMatch(text.text) /\ ~DataMatch(text.text)))
                  => decoded.mode = "null"
            /\ decoded.mode = "null" =>
                  /\ urlParams.mode = "data"
                  /\ urlParams.headband = LegacyRead(search.h, search.headband)
                  /\ urlParams.run = LegacyRead(search.r, search.run)
                  /\ (~search.h.has /\ ~search.headband.has) => urlParams.headband = Null
                  /\ (~search.r.has /\ ~search.run.has) => urlParams.run = Null

\* atob throws on "!" and the headband comes from the key headband, the run from r.
C3_Witness ==
    /\ search.id = Str(<<33>>)
    /\ ~search.h.has
    /\ search.headband = Str(<<49, 50>>)
    /\ search.r = Str(<<55>>)
    /\ decoded.mode = "null"
    /\ urlParams = [mode |-> "data", run |-> Num(7), headband |-> Num(12)]
UrlIdle ==
    /\ search = NoParams
    /\ pending = None
    /\ lastWrite = None
    /\ urlParams = None
    /\ decoded = None

InitTailSpec ==
    InitTail /\ UrlIdle /\ ClassifierIdle /\ SelectorIdle /\ WaveIdle
        /\ NormalizerIdle /\ PageIdle
        /\ BoxesIdle
        /\ StraightIdle
        /\ PipelineIdle
        /\ LoadIdle

SpecTail == InitTailSpec /\ [][NextTail]_vars

(***************************************************************************)
(* Claims about the tail deduplicator (SpecTail).                          *)
(***************************************************************************)
EqualLength(d) == \A a, b \in DOMAIN d : Len(d[a]) = Len(d[b])

\* C4: for a map of equal-length sequences, removeRepeatedTail applied to its own
\* output returns that output: the same keys and the same sequences.
C4_TailIdempotent ==
    (tailPc = "twice" /\ EqualLength(dataArrays)) =>
        /\ DOMAIN tailTwice = DOMAIN tailOnce
        /\ \A key \in DOMAIN tailOnce : tailTwice[key] = tailOnce[key]

\* Two trailing repeats were removed by the first run, none by the second.
C4_Witness ==
    /\ tailPc = "twice"
    /\ dataArrays = [key \in TailKeys |-> IF key = "alpha" THEN <<1, 3, 3, 3>> ELSE <<2, 1, 1, 1>>]
    /\ tailOnce = [key \in TailKeys |-> IF key = "alpha" THEN <<1, 3>> ELSE <<2, 1>>]
    /\ tailTwice = tailOnce

\* Every sequence of the input repeats its predecessor at index i.
RepeatsAt(i) == \A key \in DOMAIN dataArrays : dataArrays[key][i] = dataArrays[key][i - 1]

\* C5: for a map of equal-length sequences of length n >= 2, removeRepeatedTail
\* removes from every sequence the same number k of trailing elements, k being
\* the number of consecutive indices from the last one down to the second at
\* which every sequence repeats its predecessor, up to the first index where
\* some sequence differs; a trailing repeat in only some sequences removes nothing.
C5_TailTrimCount ==
    (tailPc # "input" /\ EqualLength(dataArrays) /\ MinLength(dataArrays) >= 2) =>
        LET n == MinLength(dataArrays)
        IN  /\ \E k \in 0..(n - 1) :
                  /\ \A i \in (n - k + 1)..n : RepeatsAt(i)
                  /\ (n - k >= 2) => ~RepeatsAt(n - k)
                  /\ \A key \in DOMAIN dataArrays :
                        tailOnce[key] = SubSeq(dataArrays[key], 1, n - k)
            /\ ~RepeatsAt(n) => tailOnce = dataArrays

\* The repeat at the end of alpha is not matched in beta: nothing is removed.
C5_Witness ==
    /\ tailPc = "once"
    /\ dataArrays = [key \in TailKeys |-> IF key = "alpha" THEN <<1, 2, 3, 3>> ELSE <<1, 2, 3, 1>>]
    /\ tailOnce = dataArrays
InitActivenessSpec ==
    InitActiveness /\ UrlIdle /\ TailIdle /\ SelectorIdle /\ WaveIdle
        /\ NormalizerIdle /\ PageIdle
        /\ BoxesIdle
        /\ StraightIdle
        /\ PipelineIdle
        /\ LoadIdle

NextActiveness == ComputeActivenessState

SpecActiveness == InitActivenessSpec /\ [][NextActiveness]_vars

InitRichSpec ==
    InitRich /\ UrlIdle /\ TailIdle /\ SelectorIdle /\ WaveIdle
        /\ NormalizerIdle /\ PageIdle
        /\ BoxesIdle
        /\ StraightIdle
        /\ PipelineIdle
        /\ LoadIdle

NextRich == Classify

SpecRich == InitRichSpec /\ [][NextRich]_vars

(***************************************************************************)
(* Claims about the rich variant's classifier (SpecRich, SpecActiveness).  *)
(***************************************************************************)
ActivenessStates == {"active", "clear", "meditation", "generic"}

\* The label names the band.
Names(label, band) == label \in {band \o "_" \o state : state \in ActivenessStates}

\* The largest of the five weighted values w; the weighted proportion of a band
\* is w[band] over their total.
LargestOf(w) == CHOOSE m \in {w[band] : band \in Bands} : \A band \in Bands : w[band] <= m

\* C6: a band is declared dominant only when its weighted proportion is strictly
\* greater than 0.225: a largest proportion of exactly 0.225 gives 'balanced',
\* and a largest proportion above 0.225 gives a label naming a band of that
\* proportion.
C6_StrictCutoff ==
    LET w == WeightedWaves(brainwaves)
        total == WeightedTotal(w)
        largest == LargestOf(w)
    IN  (classifierPc = "done" /\ total > 0) =>
            /\ (40 * largest = 9 * total) => dominantPattern = "balanced"
            /\ (40 * largest > 9 * total) =>
                  \E band \in Bands : w[band] = largest /\ Names(dominantPattern, band)
            /\ \A band \in Bands :
                  Names(dominantPattern, band) => 40 * w[band] > 9 * total

C6_Witness ==
    LET w == WeightedWaves(brainwaves)
    IN  /\ classifierPc = "done"
        /\ WeightedTotal(w) > 0
        /\ 40 * LargestOf(w) = 9 * WeightedTotal(w)
        /\ dominantPattern = "balanced"

\* C7: with no band above the cutoff the label is 'balanced' whatever the
\* activeness; otherwise it is '<band>_generic' for a band of the largest
\* weighted proportion when the activeness array is empty, and
\* '<band>_<state>' with the state getActivenessState gave otherwise.
C7_LabelResolution ==
    LET w == WeightedWaves(brainwaves)
        total == WeightedTotal(w)
        largest == LargestOf(w)
    IN  classifierPc = "done" =>
            IF total = 0 \/ 40 * largest <= 9 * total
            THEN dominantPattern = "balanced"
            ELSE \E band \in Bands :
                    /\ w[band] = largest
                    /\ dominantPattern =
                          IF activenessArray = <<>> THEN band \o "_generic"
                          ELSE band \o "_" \o activenessState

C7_Witness ==
    LET w == WeightedWaves(brainwaves)
    IN  /\ classifierPc = "done"
        /\ activenessArray = <<>>
        /\ activenessState = "null"
        /\ 40 * w.gamma > 9 * WeightedTotal(w)
        /\ dominantPattern = "gamma_generic"

\* The sixths that are at least 2/3, those from 1/3 up to 2/3, and those below 1/3.
ActiveSamples == {i \in 1..Len(activenessArray) : activenessArray[i] >= 4}
ClearSamples == {i \in 1..Len(activenessArray) : activenessArray[i] >= 2 /\ activenessArray[i] < 4}
MeditationSamples == {i \in 1..Len(activenessArray) : activenessArray[i] < 2}

\* A share of at least 2/3 of all samples.
TwoThirdsOfAll(S) == 3 * Cardinality(S) >= 2 * Len(activenessArray)

\* C8: getActivenessState returns null for an empty array and otherwise the
\* bucket (active: v >= 2/3, clear: 1/3 <= v < 2/3, meditation: v < 1/3) that
\* holds at least 2/3 of the samples, or 'generic' when no bucket does.
C8_ActivenessState ==
    classifierPc = "done" =>
        IF activenessArray = <<>> THEN activenessState = "null"
        ELSE /\ activenessState \in ActivenessStates
             /\ activenessState = "active" <=> TwoThirdsOfAll(ActiveSamples)
             /\ activenessState = "clear" <=> TwoThirdsOfAll(ClearSamples)
             /\ activenessState = "meditation" <=> TwoThirdsOfAll(MeditationSamples)
             /\ activenessState = "generic" <=>
                   ~(TwoThirdsOfAll(ActiveSamples) \/ TwoThirdsOfAll(ClearSamples)
                        \/ TwoThirdsOfAll(MeditationSamples))

\* 7 of 10 samples are at least 2/3.
C8_Witness ==
    /\ classifierPc = "done"
    /\ Len(activenessArray) = 10
    /\ Cardinality(ActiveSamples) = 7
    /\ activenessState = "active"

\* The order in which ties are resolved.
TieOrder == <<"alpha", "beta", "gamma", "theta", "delta">>

\* C9: when the label names a band, that band is the first one, in the order
\* alpha, beta, gamma, theta, delta, of the bands of the largest weighted
\* proportion.
C9_FirstBandWinsTies ==
    LET w == WeightedWaves(brainwaves)
        largest == LargestOf(w)
    IN  (classifierPc = "done" /\ dominantPattern # "balanced") =>
            \E i \in 1..Len(TieOrder) :
                /\ Names(dominantPattern, TieOrder[i])
                /\ w[TieOrder[i]] = largest
                /\ \A j \in 1..(i - 1) : w[TieOrder[j]] < largest

\* theta and delta share the largest proportion, and theta is named.
C9_Witness ==
    LET w == WeightedWaves(brainwaves)
    IN  /\ classifierPc = "done"
        /\ w.theta = LargestOf(w)
        /\ w.delta = LargestOf(w)
        /\ w.alpha < LargestOf(w)
        /\ Names(dominantPattern, "theta")
(***************************************************************************)
(* The simpler variant's classifier (SpecSimple).                          *)
(***************************************************************************)
InitSimpleSpec ==
    InitSimple /\ UrlIdle /\ TailIdle /\ SelectorIdle /\ WaveIdle
        /\ NormalizerIdle /\ PageIdle
        /\ BoxesIdle
        /\ StraightIdle
        /\ PipelineIdle
        /\ LoadIdle

NextSimple == ClassifySimple

SpecSimple == InitSimpleSpec /\ [][NextSimple]_vars

MlLabels == {"high_focus", "high_clear", "high_meditation", "high_dream"}

\* C10 as stated: whenever focus, clear or dream exceeds 0.7, or meditation
\* exceeds 0.6, the label is one of the four ML labels, so that the bands are
\* consulted only when no ML score exceeds its own cutoff.
C10_AnyScoreAboveCutoffWins ==
    (classifierPc = "done"
        /\ (mlAnalysis.focus > 70 \/ mlAnalysis.clear > 70 \/ mlAnalysis.dream > 70
               \/ mlAnalysis.meditation > 60))
    => dominantPattern \in MlLabels

\* C10, amended: the label is one of the four ML labels exactly when the largest
\* of the four ML scores exceeds its own cutoff, 0.6 when meditation is a largest
\* score and 0.7 otherwise; the bands are consulted in every other case.
C10_LargestScoreAboveCutoffWins ==
    LET largest == Max({mlAnalysis.focus, mlAnalysis.clear, mlAnalysis.meditation,
                        mlAnalysis.dream})
    IN  classifierPc = "done" =>
            (dominantPattern \in MlLabels
                <=> (largest > 70 \/ (mlAnalysis.meditation = largest /\ largest > 60)))

\* Meditation is the largest score, above 0.6 and not above 0.7, and wins over a
\* band above 0.25.
C10_Witness ==
    /\ classifierPc = "done"
    /\ mlAnalysis.meditation = 65
    /\ mlAnalysis.focus = 60
    /\ mlAnalysis.clear = 0
    /\ mlAnalysis.dream = 65
    /\ brainwaves.alpha = 30
    /\ dominantPattern = "high_meditation"

(***************************************************************************)
(* The fortune bank and the two selections from it.  A message is named by *)
(* its category and its position in the category's list, counted from 0:   *)
(* the 126 strings of the bank are pairwise different.  A band proportion  *)
(* is a whole number of BandUnits-ths and an ML score a whole number of    *)
(* MlUnits-ths.                                                            *)
(***************************************************************************)
BandUnits == 2
MlUnits == 16000

\* The categories of the bank in the order the object literal declares them.
FortuneCategories ==
    <<"alpha_active", "alpha_clear", "alpha_meditation", "alpha_generic",
      "beta_active", "beta_clear", "beta_meditation", "beta_generic",
      "gamma_active", "gamma_clear", "gamma_meditation", "gamma_generic",
      "delta_active", "delta_clear", "delta_meditation", "delta_generic",
      "theta_active", "theta_clear", "theta_meditation", "theta_generic",
      "balanced">>

CategoryNames == {FortuneCategories[i] : i \in DOMAIN FortuneCategories}

\* Every list of the bank holds six messages.
ListLength == 6

Message(category, position) == [category |-> category, position |-> position]

\* What reading an array outside its indices gives.
UndefinedMessage == [category |-> "undefined", position |-> 0]

\* fortunes[category]
Fortunes(category) == [i \in 1..ListLength |-> Message(category, i - 1)]

\* fortunes[category] || fortunes.balanced
CategoryFortunes(category) ==
    IF category \in CategoryNames THEN Fortunes(category) ELSE Fortunes("balanced")

\* list[index] of JavaScript, the indices counted from 0.
At(list, index) ==
    IF index \in 0..(Len(list) - 1) THEN list[index + 1] ELSE UndefinedMessage

\* a % b of JavaScript: the sign of the result is the sign of a.
Rem(a, b) == IF a >= 0 THEN a % b ELSE -((-a) % b)

\* Math.round(num / den) for den > 0: the nearest integer, a half going up.
Round(num, den) == (2 * num + den) \div (2 * den)

\* The seed with the term of the focus score, which the code comments out.
SeedWithFocus(b, ml) ==
    Round((1000 * b.alpha + 2000 * b.beta + 3000 * b.gamma + 4000 * b.delta
               + 5000 * b.theta) * MlUnits
              + (6000 * ml.focus + 8000 * ml.meditation) * BandUnits,
          BandUnits * MlUnits)

Seed(b, ml) ==
    Round((1000 * b.alpha + 2000 * b.beta + 3000 * b.gamma + 4000 * b.delta
               + 5000 * b.theta) * MlUnits
              + 8000 * ml.meditation * BandUnits,
          BandUnits * MlUnits)

GetRandomFortune(category, b, ml) ==
    LET categoryFortunes == CategoryFortunes(category)
        index == Rem(Seed(b, ml), Len(categoryFortunes))
    IN  At(categoryFortunes, index)

RECURSIVE FlattenFortunes(_)
\* The lists of the first n categories, one after the other.
FlattenFortunes(n) ==
    IF n = 0 THEN <<>>
    ELSE FlattenFortunes(n - 1) \o Fortunes(FortuneCategories[n])

RECURSIVE FlattenFortunesBackwards(_)
FlattenFortunesBackwards(n) ==
    IF n = 0 THEN <<>>
    ELSE Fortunes(FortuneCategories[n]) \o FlattenFortunesBackwards(n - 1)

\* The bank flattened from its last category to its first.
GetAllFortunesBackwards == FlattenFortunesBackwards(Len(FortuneCategories))

GetAllFortunes == FlattenFortunes(Len(FortuneCategories))

GetRandomFortuneFromTimestamp(timestamp) ==
    LET allFortunes == GetAllFortunes
    IN  At(allFortunes, Rem(timestamp, Len(allFortunes)))

\* Normalised bands: five proportions that add up to 1, or five zeros.
Sum5(b) == b.alpha + b.beta + b.gamma + b.delta + b.theta
NormalizedBands ==
    {b \in [Bands -> 0..BandUnits] : Sum5(b) \in {0, BandUnits}}

\* Meditation averages around the halves of the seed, and one above 1.
MeditationValues == {0, 1, 3, 8000, 16001}
\* The other scores: 0 and 0.5005.
ScoreValues == {0, 8008}

MlRecord(focus, clear, meditation, dream) ==
    [focus |-> focus, clear |-> clear, meditation |-> meditation, dream |-> dream]

\* A label with no list of its own stands for every such label.
SelectorLabels == CategoryNames \cup {"high_alpha"}

InitSelector ==
    /\ fortuneMessage = None
    /\ fortuneMessageOther = None
    /\ \/ \E category \in SelectorLabels, b \in NormalizedBands,
             meditation \in MeditationValues,
             focus \in ScoreValues, focusOther \in ScoreValues,
             clearOther \in ScoreValues, dreamOther \in ScoreValues :
               selectorInput =
                   [mode |-> "data", category |-> category, brainwaves |-> b,
                    mlAnalysis |-> MlRecord(focus, 0, meditation, 0),
                    mlOther |-> MlRecord(focusOther, clearOther, meditation,
                                         dreamOther)]
       \/ \E timestamp \in 0..MaxTimestamp :
               selectorInput = [mode |-> "fortune", timestamp |-> timestamp]

\* updateBrainwaveDisplay picks the fortune of the label; the second call is the
\* same call with other focus, clear and dream scores.
SelectFortune ==
    /\ selectorInput.mode = "data"
    /\ fortuneMessage = None
    /\ fortuneMessage' = GetRandomFortune(selectorInput.category,
                             selectorInput.brainwaves, selectorInput.mlAnalysis)
    /\ fortuneMessageOther' = GetRandomFortune(selectorInput.category,
                                  selectorInput.brainwaves, selectorInput.mlOther)
    /\ UNCHANGED <<selectorInput, nonSelectorVars>>

\* displayRandomFortune picks the fortune of the timestamp.
SelectFortuneFromTimestamp ==
    /\ selectorInput.mode = "fortune"
    /\ fortuneMessage = None
    /\ fortuneMessage' = GetRandomFortuneFromTimestamp(selectorInput.timestamp)
    /\ UNCHANGED <<selectorInput, fortuneMessageOther, nonSelectorVars>>

NextSelector ==
    \/ SelectFortune
    \/ SelectFortuneFromTimestamp

InitSelectorSpec ==
    InitSelector /\ UrlIdle /\ TailIdle /\ ClassifierIdle /\ WaveIdle
        /\ NormalizerIdle /\ PageIdle
        /\ BoxesIdle
        /\ StraightIdle
        /\ PipelineIdle
        /\ LoadIdle

SpecSelector == InitSelectorSpec /\ [][NextSelector]_vars

(***************************************************************************)
(* Claims about the fortune selections (SpecSelector).                     *)
(***************************************************************************)
\* The list a label selects from: its own, or the balanced one.
ListOf(category) == IF category \in CategoryNames THEN category ELSE "balanced"

\* C11: getRandomFortune returns the element of the label's list at the index
\* round(1000 alpha + 2000 beta + 3000 gamma + 4000 delta + 5000 theta
\* + 8000 meditation) mod the length of the list, and a second call with the
\* same label, bands and meditation value returns the same message whatever
\* its focus, clear and dream scores are.
C11_SeededFortune ==
    (selectorInput.mode = "data" /\ fortuneMessage # None) =>
        LET b == selectorInput.brainwaves
            den == BandUnits * MlUnits
            num == (1000 * b.alpha + 2000 * b.beta + 3000 * b.gamma
                        + 4000 * b.delta + 5000 * b.theta) * MlUnits
                   + 8000 * selectorInput.mlAnalysis.meditation * BandUnits
            whole == num \div den
            seed == IF 2 * (num % den) >= den THEN whole + 1 ELSE whole
        IN  /\ fortuneMessage =
                   Message(ListOf(selectorInput.category), seed % ListLength)
            /\ fortuneMessageOther = fortuneMessage

\* Two calls that differ in focus, clear and dream, with a seed that lies on a
\* half (4500.5) and is rounded up to 4501, returned the second message of the
\* list.
C11_Witness ==
    /\ selectorInput.mode = "data"
    /\ fortuneMessage # None
    /\ selectorInput.category = "theta_clear"
    /\ selectorInput.brainwaves.theta = 1
    /\ selectorInput.brainwaves.delta = 1
    /\ selectorInput.brainwaves.gamma = 0
    /\ selectorInput.brainwaves.alpha = 0
    /\ selectorInput.brainwaves.beta = 0
    /\ selectorInput.mlAnalysis.meditation = 1
    /\ selectorInput.mlAnalysis.focus = 0
    /\ selectorInput.mlOther = MlRecord(8008, 8008, 1, 8008)
    /\ fortuneMessage = Message("theta_clear", 1)
    /\ fortuneMessageOther = Message("theta_clear", 1)

\* C12: in fortune mode the message is the element at index timestamp mod N of
\* the lists of all categories, concatenated in the declared order of the
\* categories, N being the number of messages of the bank; for every timestamp
\* from 0 up this is a message of the bank.
C12_FortuneFromTimestamp ==
    (selectorInput.mode = "fortune" /\ fortuneMessage # None) =>
        LET total == ListLength * Len(FortuneCategories)
            index == selectorInput.timestamp % total
        IN  /\ fortuneMessage =
                   Message(FortuneCategories[(index \div ListLength) + 1],
                           index % ListLength)
            /\ fortuneMessage.category \in CategoryNames
            /\ fortuneMessage.position \in 0..(ListLength - 1)

\* A timestamp past the end of the bank wraps around: 2 * 126 + 11 is the
\* sixth message of the second category.
C12_Witness ==
    /\ selectorInput.mode = "fortune"
    /\ selectorInput.timestamp = 263
    /\ fortuneMessage = Message("alpha_clear", 5)

(***************************************************************************)
(* The waveform of a band.  Frequencies are whole numbers of quarter       *)
(* hertz.  The weight of a component is a fraction over WeightDen, the     *)
(* amplitude a whole number of AmplitudeUnits-ths or NaN, and the sine of  *)
(* a component a whole number of SineUnits-ths.  Math.sin is not computed: *)
(* at each point the sine of the components is one of the SineLevels, the  *)
(* same for all components of the point, so that the sum of the components *)
(* ranges over its whole interval.  A raw point is a fraction over RawDen  *)
(* and a y value a fraction over YDen.                                     *)
(***************************************************************************)
MaxWidth == 3
AmplitudeUnits == 2
SineUnits == 2

brainwaveSpecs ==
    [delta |-> [minHz |-> 2,   maxHz |-> 16,  centerHz |-> 9,   numWaves |-> 7],
     theta |-> [minHz |-> 16,  maxHz |-> 32,  centerHz |-> 24,  numWaves |-> 13],
     alpha |-> [minHz |-> 32,  maxHz |-> 48,  centerHz |-> 40,  numWaves |-> 8],
     beta  |-> [minHz |-> 48,  maxHz |-> 120, centerHz |-> 84,  numWaves |-> 10],
     gamma |-> [minHz |-> 120, maxHz |-> 400, centerHz |-> 260, numWaves |-> 2]]

Abs(n) == IF n < 0 THEN -n ELSE n

\* freq of component i (counted from 0), times numWaves + 2
FreqNum(spec, i) ==
    spec.minHz * (spec.numWaves + 2) + (spec.maxHz - spec.minHz) * (i + 1)

\* distanceFromCenter, times numWaves + 2
DistanceFromCenterNum(spec, i) ==
    Abs(FreqNum(spec, i) - spec.centerHz * (spec.numWaves + 2))

MaxDistance(spec) ==
    Max({spec.centerHz - spec.minHz, spec.maxHz - spec.centerHz})

\* weight = 1 - (distanceFromCenter / maxDistance) * 0.3, a fraction over WeightDen
WeightDen(spec) == 10 * MaxDistance(spec) * (spec.numWaves + 2)
WeightNum(spec, i) == WeightDen(spec) - 3 * DistanceFromCenterNum(spec, i)

RECURSIVE SumOfWeights(_, _)
\* The weights of the first n components, added up.
SumOfWeights(spec, n) ==
    IF n = 0 THEN 0 ELSE SumOfWeights(spec, n - 1) + WeightNum(spec, n - 1)

RawDen(spec) == SineUnits * WeightDen(spec) * AmplitudeUnits

\* y += Math.sin(...) * component.amplitude over the components, the sine of
\* each being sine / SineUnits; NaN when the amplitude is NaN.
RawPoint(spec, amplitude, sine) ==
    IF amplitude.t = "nan" THEN NaN
    ELSE Num(sine * amplitude.v * SumOfWeights(spec, spec.numWaves))

RECURSIVE SumOfRaw(_, _)
\* rawPoints.reduce((sum, val) => sum + val, 0) over the first n points
SumOfRaw(rawPoints, n) ==
    IF n = 0 THEN Num(0)
    ELSE LET sum == SumOfRaw(rawPoints, n - 1)
         IN  IF sum.t = "nan" \/ rawPoints[n].t = "nan" THEN NaN
             ELSE Num(sum.v + rawPoints[n].v)

YDen(spec, width) == 6 * RawDen(spec) * width

\* Math.max(1, Math.min(height - 1, y)) for y = num / den: NaN stays NaN.
Clamp(y, den, height) ==
    IF y.t = "nan" THEN NaN
    ELSE LET low == IF y.v > (height - 1) * den THEN (height - 1) * den ELSE y.v
         IN  Num(IF low < den THEN den ELSE low)

\* centerY - ((rawPoints[x] - mean) * maxAmplitude), over YDen; the simpler
\* variant subtracts no mean.
Centered(spec, raw, sum, width, height, removeMean) ==
    IF raw.t = "nan" \/ (removeMean /\ sum.t = "nan") THEN NaN
    ELSE LET centerY == 3 * RawDen(spec) * width * height
             deviation == IF removeMean THEN width * raw.v - sum.v
                          ELSE width * raw.v
         IN  Num(centerY - 2 * height * deviation)

\* The points of the path, x counted from 0.
WavePoints(spec, rawPoints, width, height, removeMean) ==
    LET sum == SumOfRaw(rawPoints, Len(rawPoints))
    IN  [i \in 1..width |->
            [x |-> i - 1,
             y |-> Clamp(Centered(spec, rawPoints[i], sum, width, height,
                                  removeMean),
                         YDen(spec, width), height)]]

\* generateFrequencyWeightedWave, given the sines of its points; the path of
\* an unknown band is the flat line at height / 2.
GenerateFrequencyWeightedWave(brainwaveType, amplitude, width, height, sines, removeMean) ==
    IF brainwaveType \notin DOMAIN brainwaveSpecs
    THEN [kind |-> "line", width |-> width, twiceCenterY |-> height]
    ELSE LET spec == brainwaveSpecs[brainwaveType]
             rawPoints == [i \in 1..width |-> RawPoint(spec, amplitude, sines[i])]
         IN  [kind |-> "wave",
              points |-> WavePoints(spec, rawPoints, width, height, removeMean)]

SineLevels == {-2, -1, 0, 1, 2}

\* brainwaves.band / m of updateAllWaveVisualizations: 0, 1/2, 1, or NaN when
\* the five bands are zero (0 / 0).
Amplitudes == {NaN, Num(0), Num(1), Num(2)}

Heights == {2, 7, 60}

InitWave ==
    /\ wavePath = None
    /\ \E brainwaveType \in Bands \cup {"mu"}, amplitude \in Amplitudes,
          width \in 1..MaxWidth, height \in Heights, removeMean \in BOOLEAN :
            waveInput = [mode |-> "wave", brainwaveType |-> brainwaveType,
                         amplitude |-> amplitude, width |-> width,
                         height |-> height, removeMean |-> removeMean]

\* updateWaveVisualization draws the path of one band.
GenerateWave ==
    /\ waveInput.mode = "wave"
    /\ wavePath = None
    /\ \E sines \in [1..waveInput.width -> SineLevels] :
          wavePath' = GenerateFrequencyWeightedWave(waveInput.brainwaveType,
                          waveInput.amplitude, waveInput.width, waveInput.height,
                          sines, waveInput.removeMean)
    /\ UNCHANGED <<waveInput, nonWaveVars>>

NextWave == GenerateWave

InitWaveSpec ==
    InitWave /\ UrlIdle /\ TailIdle /\ ClassifierIdle /\ SelectorIdle
        /\ NormalizerIdle /\ PageIdle
        /\ BoxesIdle
        /\ StraightIdle
        /\ PipelineIdle
        /\ LoadIdle

SpecWave == InitWaveSpec /\ [][NextWave]_vars

(***************************************************************************)
(* Claims about the waveform (SpecWave).                                   *)
(***************************************************************************)
\* C13: for a known band, the path has exactly width points, their x values
\* are 0, 1, ..., width - 1 in this order, and every y value lies within
\* 1 and height - 1.
C13_WavePointsWithinBounds ==
    (waveInput.mode = "wave" /\ waveInput.brainwaveType \in Bands
        /\ wavePath # None) =>
        LET den == YDen(brainwaveSpecs[waveInput.brainwaveType], waveInput.width)
        IN  /\ wavePath.kind = "wave"
            /\ Len(wavePath.points) = waveInput.width
            /\ \A i \in 1..waveInput.width :
                  /\ wavePath.points[i].x = i - 1
                  /\ wavePath.points[i].y.t = "num"
                  /\ wavePath.points[i].y.v >= den
                  /\ wavePath.points[i].y.v <= (waveInput.height - 1) * den

\* What holds instead: the same for every amplitude that is a number.
WavePointsOfNumbersWithinBounds ==
    (waveInput.mode = "wave" /\ waveInput.brainwaveType \in Bands
        /\ waveInput.amplitude.t = "num" /\ wavePath # None) =>
        LET den == YDen(brainwaveSpecs[waveInput.brainwaveType], waveInput.width)
        IN  /\ wavePath.kind = "wave"
            /\ Len(wavePath.points) = waveInput.width
            /\ \A i \in 1..waveInput.width :
                  /\ wavePath.points[i].x = i - 1
                  /\ wavePath.points[i].y.t = "num"
                  /\ wavePath.points[i].y.v >= den
                  /\ wavePath.points[i].y.v <= (waveInput.height - 1) * den

(***************************************************************************)
(* The band normaliser.  A number is kept as the fraction [num, den]: a    *)
(* raw band value is a whole number, the fraction n / 1.                   *)
(***************************************************************************)
MaxRaw == 3

Fraction(num, den) == [num |-> num, den |-> den]

\* The total without theta.
TotalWithoutTheta(rawValues_) ==
    rawValues_.alpha.num + rawValues_.beta.num + rawValues_.gamma.num
        + rawValues_.delta.num

\* const total = alpha + beta + gamma + delta + theta
Total(rawValues_) ==
    rawValues_.alpha.num + rawValues_.beta.num + rawValues_.gamma.num
        + rawValues_.delta.num + rawValues_.theta.num

NormalizeBrainwaves(rawValues_) ==
    LET total == Total(rawValues_)
    IN  IF total = 0 THEN rawValues_
        ELSE [alpha |-> Fraction(rawValues_.alpha.num, total),
              beta |-> Fraction(rawValues_.beta.num, total),
              gamma |-> Fraction(rawValues_.gamma.num, total),
              delta |-> Fraction(rawValues_.delta.num, total),
              theta |-> Fraction(rawValues_.theta.num, total)]

InitNormalizer ==
    /\ rawValues \in [Bands -> {Fraction(n, 1) : n \in 0..MaxRaw}]
    /\ normalized = None

\* fetchBrainwaveData normalises the five averages.
Normalize ==
    /\ rawValues # None
    /\ normalized = None
    /\ normalized' = NormalizeBrainwaves(rawValues)
    /\ UNCHANGED <<rawValues, nonNormalizerVars>>

NextNormalizer == Normalize

InitNormalizerSpec ==
    InitNormalizer /\ UrlIdle /\ TailIdle /\ ClassifierIdle /\ SelectorIdle
        /\ WaveIdle /\ PageIdle
        /\ BoxesIdle
        /\ StraightIdle
        /\ PipelineIdle
        /\ LoadIdle

SpecNormalizer == InitNormalizerSpec /\ [][NextNormalizer]_vars

(***************************************************************************)
(* Claims about the band normaliser (SpecNormalizer).                      *)
(***************************************************************************)
\* C14: when the five band values add up to a positive sum, each output of
\* normalizeBrainwaves is its input divided by that sum and the five outputs
\* add up to 1; when the five values are zero, the result is the input record.
C14_NormalizedSumsToOne ==
    normalized # None =>
        LET sum == rawValues.alpha.num + rawValues.beta.num + rawValues.gamma.num
                       + rawValues.delta.num + rawValues.theta.num
        IN  IF sum > 0
            THEN /\ \A band \in Bands :
                        normalized[band].num * sum
                            = rawValues[band].num * normalized[band].den
                 /\ \A band \in Bands : normalized[band].den = normalized.alpha.den
                 /\ normalized.alpha.num + normalized.beta.num
                        + normalized.gamma.num + normalized.delta.num
                        + normalized.theta.num = normalized.alpha.den
            ELSE /\ normalized = rawValues
                 /\ \A band \in Bands : normalized[band] = Fraction(0, 1)

\* Bands that add up to 6 came out as 1/6, 2/6, 3/6, 0 and 0.
C14_Witness ==
    /\ rawValues = [alpha |-> Fraction(1, 1), beta |-> Fraction(2, 1),
                    gamma |-> Fraction(3, 1), delta |-> Fraction(0, 1),
                    theta |-> Fraction(0, 1)]
    /\ normalized # None
    /\ normalized.gamma = Fraction(3, 6)
    /\ normalized.delta = Fraction(0, 6)

\* The five zeros came back as they were.
C14_WitnessZero ==
    /\ rawValues = [band \in Bands |-> Fraction(0, 1)]
    /\ normalized = rawValues

(***************************************************************************)
(* The page load: fetchBrainwaveData, which the load event of the window   *)
(* runs once.  The function is cut at its awaits: the timeout of the       *)
(* fallback, the fetch and the parsing of the body.  The fortune of the    *)
(* data is named by the trimmed arrays it is computed from; the steps from *)
(* the arrays to the message are the ones modelled above.                  *)
(***************************************************************************)
Undefined == [t |-> "undefined", v |-> 0]
Arr(s) == [t |-> "array", a |-> s]

\* if (x), x || y: undefined, null, NaN and 0 are falsy, an array is truthy.
TruthyValue(x) == x.t = "array" \/ (x.t = "num" /\ x.v # 0)

\* The operand of ^ as a 32-bit integer: NaN, null and undefined are 0.
ToInt32(x) == IF x.t = "num" THEN x.v ELSE 0

\* The HTML before the script has run.
InitialDisplay ==
    [loadingDots |-> "initial", fortuneMessage |-> [kind |-> "initial"],
     bandBoxes |-> "initial", mlBoxes |-> "initial", dataPanel |-> "initial"]

\* Show loading dots, 'Connecting to the cosmos...'
Connecting(d) ==
    [d EXCEPT !.loadingDots = "block", !.fortuneMessage = [kind |-> "connecting"]]

\* displayRandomFortune without its last four lines: the dots stay, the
\* panel is not shown.
DisplayRandomFortuneMessageOnly(d, timestamp) ==
    [d EXCEPT !.fortuneMessage =
                  [kind |-> "random",
                   message |-> GetRandomFortuneFromTimestamp(timestamp)]]

DisplayRandomFortune(d, timestamp) ==
    [d EXCEPT !.fortuneMessage =
                  [kind |-> "random",
                   message |-> GetRandomFortuneFromTimestamp(timestamp)],
              !.loadingDots = "none",
              !.dataPanel = "shown"]

\* The band boxes show percentages and the message is the fortune of the data.
UpdateBrainwaveDisplay(d, arrays) ==
    [d EXCEPT !.bandBoxes = "percent",
              !.fortuneMessage = [kind |-> "data", arrays |-> arrays],
              !.loadingDots = "none",
              !.dataPanel = "shown"]

\* The catch block without the four ML boxes.
ErrorDisplayBandsOnly(d) ==
    [d EXCEPT !.bandBoxes = "X",
              !.fortuneMessage = [kind |-> "apology"],
              !.loadingDots = "none",
              !.dataPanel = "shown"]

\* The catch block: 'X' in the nine boxes, the apology, the panel shown.
ErrorDisplay(d) ==
    [d EXCEPT !.bandBoxes = "X",
              !.mlBoxes = "X",
              !.fortuneMessage = [kind |-> "apology"],
              !.loadingDots = "none",
              !.dataPanel = "shown"]

\* The test without the lower end of the range.
InvalidHeadbandNoLowerEnd(headband) ==
    headband.t = "null" \/ (headband.t = "num" /\ headband.v > MaxHeadband)

\* The test for a missing headband only.
InvalidHeadbandNullOnly(headband) == headband.t = "null"

\* urlParams.headband === null || urlParams.headband < 0 || urlParams.headband > 10:
\* both comparisons are false of NaN.
InvalidHeadband(headband) ==
    \/ headband.t = "null"
    \/ headband.t = "num" /\ (headband.v < 0 \/ headband.v > MaxHeadband)

\* { headband } and, unless it is null, run
RequestBody(params) ==
    [headband |-> params.headband,
     run |-> IF params.run.t # "null" THEN params.run ELSE Undefined]

\* window.history.replaceState({}, '', url)
ReplaceState(entries, q) == [entries EXCEPT ![Len(entries)] = q]

\* The rewrite that keeps the parameters it finds.
DataSearchKeepingParams(q, headband, run) ==
    [q EXCEPT !.id = Str(EncodeId(ToInt32(headband), ToInt32(run)))]

\* url.search = ''; url.searchParams.set('id', encodeId(headband, run))
DataSearch(q, headband, run) ==
    [NoParams EXCEPT !.id = Str(EncodeId(ToInt32(headband), ToInt32(run)))]

\* The rewrite with the token of the next millisecond.
FortuneSearchOfNextTimestamp(q, timestamp) ==
    [NoParams EXCEPT !.id = Str(EncodeRandomFortuneTimestamp(timestamp + 1))]

\* url.search = ''; url.searchParams.set('id', encodeRandomFortuneTimestamp(timestamp))
FortuneSearch(q, timestamp) ==
    [NoParams EXCEPT !.id = Str(EncodeRandomFortuneTimestamp(timestamp))]

\* await new Promise(r => setTimeout(r, 1000))
FallbackDelay == 1000

\* A timeout of no delay.
TimerDueAtOnce(now) == now

TimerDue(now) == now + FallbackDelay

\* The five band fields if every smoothed field the body has took the place
\* of the plain one.
SmoothedIfPresent(body) ==
    [band \in Bands |->
        IF body.smoothed[band].t # "undefined" THEN body.smoothed[band]
        ELSE body.bands[band]]

\* if (data.alpha_smoothed) { data.alpha = data.alpha_smoothed; } and the
\* same for beta, gamma, delta and theta: the five band fields afterwards.
Smoothed(body) ==
    [band \in Bands |->
        IF TruthyValue(body.smoothed[band]) THEN body.smoothed[band]
        ELSE body.bands[band]]

\* Array.isArray(x) ? x : [x || 0]
ToArray(x) ==
    IF x.t = "array" THEN x.a
    ELSE IF TruthyValue(x) THEN <<x.v>> ELSE <<0>>

\* rawDataArrays as first built
RawDataArrays(bands) == [band \in Bands |-> ToArray(bands[band])]

\* data.run || urlParams.run || 1
ActualRun(body, params) ==
    IF TruthyValue(body.run) THEN body.run
    ELSE IF TruthyValue(params.run) THEN params.run
    ELSE Num(1)

\* The URLs a visitor may open the page with.
PageUrls ==
    {NoParams,
     \* the token of headband 3, run 7, alone and with legacy parameters
     [NoParams EXCEPT !.id = Str(EncodeId(3, 7))],
     [NoParams EXCEPT !.id = Str(EncodeId(3, 7)), !.h = Str(<<57>>),
                      !.r = Str(<<50>>)],
     \* the token of headband 11
     [NoParams EXCEPT !.id = Str(EncodeId(11, 1))],
     \* the token of the fortune of timestamp 130, alone and with headband=5
     [NoParams EXCEPT !.id = Str(EncodeRandomFortuneTimestamp(130))],
     [NoParams EXCEPT !.id = Str(EncodeRandomFortuneTimestamp(130)),
                      !.headband = Str(<<53>>)],
     \* id=! with h=5 and r=2
     [NoParams EXCEPT !.id = Str(<<33>>), !.h = Str(<<53>>), !.r = Str(<<50>>)],
     \* h=5, h=0, headband=10 with run=4
     [NoParams EXCEPT !.h = Str(<<53>>)],
     [NoParams EXCEPT !.h = Str(<<48>>)],
     [NoParams EXCEPT !.headband = Str(<<49, 48>>), !.run = Str(<<52>>)],
     \* h=11, h=-1, r=2 alone
     [NoParams EXCEPT !.h = Str(<<49, 49>>)],
     [NoParams EXCEPT !.h = Str(<<45, 49>>)],
     [NoParams EXCEPT !.r = Str(<<50>>)],
     \* h=abc with r=2
     [NoParams EXCEPT !.h = Str(<<97, 98, 99>>), !.r = Str(<<50>>)]}

\* Date.now() when the page is loaded.
ClockStarts == {0, 125}

\* How far the clock moves between two looks at it.
TickMs == 500

\* The values of a band field: missing, a number, an array.
PlainValues == {Undefined, Num(5), Arr(<<1, 1, 2, 2>>)}
\* The values of a smoothed field: missing, 0, an array.
SmoothedValues == {Undefined, Num(0), Arr(<<2, 3, 3>>)}
\* The values of the run field: missing, 0, 9.
RunValues == {Undefined, Num(0), Num(9)}

\* The bodies the server may answer with: an object whose five band fields
\* are alike, or null.
ResponseBodies ==
    {[t |-> "object", bands |-> [band \in Bands |-> plain], smoothed |-> s,
      run |-> run] :
        plain \in PlainValues, s \in [Bands -> SmoothedValues], run \in RunValues}
    \cup {[t |-> "null"]}

InitPage ==
    /\ search \in PageUrls
    /\ pending = None
    /\ lastWrite = None
    /\ urlParams = None
    /\ decoded = None
    /\ pagePc = "ready"
    /\ loads = 1
    /\ loadedSearch = search
    /\ shown = <<>>
    /\ display = InitialDisplay
    /\ requests = <<>>
    /\ response = "none"
    /\ data = None
    /\ rawDataArrays = None
    /\ actualRun = None
    /\ clock \in ClockStarts
    /\ timer = None
    /\ capturedTimestamp = None
    /\ history = <<search>>
    /\ caught = 0

\* The load in fortune mode: the fortune of the timestamp is shown at once.
LoadFortune ==
    /\ pagePc = "ready"
    /\ LET params == GetUrlParams(search)
           q == FortuneSearch(search, params.timestamp)
       IN  /\ params.mode = "fortune"
           /\ urlParams' = params
           /\ decoded' = GetUrlParamsDecoded(search)
           /\ display' = DisplayRandomFortune(Connecting(display), params.timestamp)
           /\ search' = q
           /\ history' = ReplaceState(history, q)
           /\ lastWrite' = [mode |-> "fortune", timestamp |-> params.timestamp]
    /\ pagePc' = "done"
    /\ UNCHANGED <<pending, requests, response, data, rawDataArrays, actualRun,
                   clock, timer, capturedTimestamp, caught, nonPageVars>>

\* The load with a missing or out-of-range headband, up to the await of the
\* timeout.
LoadFallback ==
    /\ pagePc = "ready"
    /\ LET params == GetUrlParams(search)
       IN  /\ params.mode = "data"
           /\ InvalidHeadband(params.headband)
           /\ urlParams' = params
           /\ decoded' = GetUrlParamsDecoded(search)
    /\ display' = Connecting(display)
    /\ capturedTimestamp' = clock
    /\ timer' = [mode |-> "set", setAt |-> clock, due |-> TimerDue(clock)]
    /\ pagePc' = "timer"
    /\ UNCHANGED <<search, pending, lastWrite, requests, response, data,
                   rawDataArrays, actualRun, clock, history, caught, nonPageVars>>

\* Time passes while the timeout is pending.
Tick ==
    /\ pagePc = "timer"
    /\ clock <= timer.due
    /\ clock' = clock + TickMs
    /\ UNCHANGED <<urlVars, pagePc, display, requests, response, data,
                   rawDataArrays, actualRun, timer, capturedTimestamp, history,
                   caught, nonPageVars>>

\* The timeout is over: the fortune of the captured timestamp is shown.
TimerFires ==
    /\ pagePc = "timer"
    /\ clock >= timer.due
    /\ LET q == FortuneSearch(search, capturedTimestamp)
       IN  /\ search' = q
           /\ history' = ReplaceState(history, q)
    /\ display' = DisplayRandomFortune(display, capturedTimestamp)
    /\ lastWrite' = [mode |-> "fortune", timestamp |-> capturedTimestamp]
    /\ pagePc' = "done"
    /\ UNCHANGED <<pending, urlParams, decoded, requests, response, data,
                   rawDataArrays, actualRun, clock, timer, capturedTimestamp,
                   caught, nonPageVars>>

\* The load with a headband to ask for, up to the await of the fetch.
LoadData ==
    /\ pagePc = "ready"
    /\ LET params == GetUrlParams(search)
       IN  /\ params.mode = "data"
           /\ ~InvalidHeadband(params.headband)
           /\ urlParams' = params
           /\ decoded' = GetUrlParamsDecoded(search)
           /\ requests' = Append(requests, RequestBody(params))
    /\ display' = Connecting(display)
    /\ pagePc' = "fetch"
    /\ UNCHANGED <<search, pending, lastWrite, response, data, rawDataArrays,
                   actualRun, clock, timer, capturedTimestamp, history, caught,
                   nonPageVars>>

\* The fetch is rejected: the catch block runs.
FetchRejects ==
    /\ pagePc = "fetch"
    /\ response' = "rejected"
    /\ display' = ErrorDisplay(display)
    /\ caught' = caught + 1
    /\ pagePc' = "failed"
    /\ UNCHANGED <<urlVars, requests, data, rawDataArrays, actualRun, clock,
                   timer, capturedTimestamp, history, nonPageVars>>

\* The response is not OK, with updateUrlParams called before response.ok is
\* looked at.
FetchNotOkAfterUrlUpdate ==
    /\ pagePc = "fetch"
    /\ response' = "notOk"
    /\ LET run == IF TruthyValue(urlParams.run) THEN urlParams.run ELSE Num(1)
           q == DataSearch(search, urlParams.headband, run)
       IN  /\ search' = q
           /\ history' = ReplaceState(history, q)
           /\ lastWrite' = [mode |-> "data",
                            headband |-> ToInt32(urlParams.headband),
                            run |-> ToInt32(run)]
    /\ display' = ErrorDisplay(display)
    /\ caught' = caught + 1
    /\ pagePc' = "failed"
    /\ UNCHANGED <<pending, urlParams, decoded, requests, data, rawDataArrays,
                   actualRun, clock, timer, capturedTimestamp, nonPageVars>>

\* The response is not OK: the error thrown is caught.
FetchNotOk ==
    /\ pagePc = "fetch"
    /\ response' = "notOk"
    /\ display' = ErrorDisplay(display)
    /\ caught' = caught + 1
    /\ pagePc' = "failed"
    /\ UNCHANGED <<urlVars, requests, data, rawDataArrays, actualRun, clock,
                   timer, capturedTimestamp, history, nonPageVars>>

\* The response is OK, up to the await of response.json().
FetchOk ==
    /\ pagePc = "fetch"
    /\ response' = "ok"
    /\ pagePc' = "json"
    /\ UNCHANGED <<urlVars, display, requests, data, rawDataArrays, actualRun,
                   clock, timer, capturedTimestamp, history, caught, nonPageVars>>

\* The body is not JSON: the catch block runs.
JsonRejects ==
    /\ pagePc = "json"
    /\ display' = ErrorDisplay(display)
    /\ caught' = caught + 1
    /\ pagePc' = "failed"
    /\ UNCHANGED <<urlVars, requests, response, data, rawDataArrays, actualRun,
                   clock, timer, capturedTimestamp, history, nonPageVars>>

\* The body is null: reading data.alpha_smoothed throws, the catch block runs.
JsonResolvesNull ==
    /\ pagePc = "json"
    /\ data' = [t |-> "null"]
    /\ display' = ErrorDisplay(display)
    /\ caught' = caught + 1
    /\ pagePc' = "failed"
    /\ UNCHANGED <<urlVars, requests, response, rawDataArrays, actualRun, clock,
                   timer, capturedTimestamp, history, nonPageVars>>

\* The body is an object: the URL is rewritten and the data shown.
JsonResolves ==
    /\ pagePc = "json"
    /\ \E body \in ResponseBodies :
          /\ body.t = "object"
          /\ data' = body
          /\ LET run == ActualRun(body, urlParams)
                 q == DataSearch(search, urlParams.headband, run)
                 arrays == RawDataArrays(Smoothed(body))
             IN  /\ actualRun' = run
                 /\ search' = q
                 /\ history' = ReplaceState(history, q)
                 /\ lastWrite' = [mode |-> "data",
                                  headband |-> ToInt32(urlParams.headband),
                                  run |-> ToInt32(run)]
                 /\ rawDataArrays' = arrays
                 /\ display' = UpdateBrainwaveDisplay(display,
                                   RemoveRepeatedTail(rawDataArrays'))
    /\ pagePc' = "done"
    /\ UNCHANGED <<pending, urlParams, decoded, requests, response, clock, timer,
                   capturedTimestamp, caught, nonPageVars>>

NextPage ==
    \/ LoadFortune
    \/ LoadFallback
    \/ Tick
    \/ TimerFires
    \/ LoadData
    \/ FetchRejects
    \/ FetchNotOk
    \/ FetchOk
    \/ JsonRejects
    \/ JsonResolvesNull
    \/ JsonResolves

InitPageSpec ==
    InitPage /\ TailIdle /\ ClassifierIdle /\ SelectorIdle /\ WaveIdle
        /\ NormalizerIdle
        /\ BoxesIdle
        /\ StraightIdle
        /\ PipelineIdle

SpecPage == InitPageSpec /\ [][NextPage]_vars

(***************************************************************************)
(* Claims about the page load (SpecPage).                                  *)
(***************************************************************************)
\* A fortune is on display: one picked by a timestamp or one derived from data.
FortuneShown == display.fortuneMessage.kind \in {"random", "data"}

\* The URL gave no headband, or one outside 0..10.
NoValidHeadband ==
    /\ urlParams.mode = "data"
    /\ \/ urlParams.headband.t = "null"
       \/ urlParams.headband.t = "num" /\ urlParams.headband.v \notin 0..10

\* The timeout of the fallback was set at least a second ago.
DelayElapsed == timer # None /\ clock - timer.setAt >= 1000

\* C15, as stated: in every page load a fortune is on display only once the
\* fetch has resolved or, with no valid headband, once the delay of one second
\* has elapsed.
C15_FortuneAfterFetchOrDelay ==
    FortuneShown => (response = "ok" \/ (NoValidHeadband /\ DelayElapsed))

\* C15, amended: a fortune derived from data is on display only once the fetch
\* has resolved and its body is parsed; a fortune picked by a timestamp is on
\* display only in fortune mode, where it is shown at once without a fetch or a
\* delay, or with no valid headband once the delay of one second has elapsed.
C15_FortuneAfterFetchDelayOrDecode ==
    /\ display.fortuneMessage.kind = "data" => (response = "ok" /\ data # None)
    /\ display.fortuneMessage.kind = "random" =>
           \/ urlParams.mode = "fortune" /\ response = "none" /\ timer = None
           \/ NoValidHeadband /\ DelayElapsed

\* The fallback showed its fortune exactly one second after the load.
C15_Witness ==
    /\ pagePc = "done"
    /\ search # NoParams
    /\ urlParams.mode = "data"
    /\ urlParams.headband = Null
    /\ display.fortuneMessage.kind = "random"
    /\ clock = timer.setAt + 1000

\* C16: a page load sends at most one request; once the request has failed
\* (the fetch rejected, the status not OK or the body unparsable) the one
\* request sent stays the only one; in fortune mode and with a missing or
\* out-of-range headband no request is sent.
C16_AtMostOneRequest ==
    /\ Len(requests) <= 1
    /\ pagePc = "failed" => Len(requests) = 1
    /\ urlParams.mode = "fortune" => requests = <<>>
    /\ NoValidHeadband => requests = <<>>

\* The one request of the load of ?h=5 was answered with a status that is not
\* OK, and the load has ended.
C16_Witness ==
    /\ pagePc = "failed"
    /\ response = "notOk"
    /\ requests = <<[headband |-> Num(5), run |-> Undefined]>>
    /\ ~ENABLED NextPage

\* An error was thrown inside the try block: the fetch rejected, the status
\* was not OK, the body could not be parsed, or the body was null.
ErrorThrown ==
    \/ response \in {"rejected", "notOk"}
    \/ data = [t |-> "null"]
    \/ pagePc = "failed"

C18_FallbackToRandomFortune ==
    NoValidHeadband =>
        /\ pagePc \in {"timer", "done"}
        /\ caught = 0
        /\ display.fortuneMessage.kind # "apology"
        /\ requests = <<>>
        /\ pagePc = "done" =>
               /\ display.fortuneMessage =
                      [kind |-> "random",
                       message |-> GetRandomFortuneFromTimestamp(timer.setAt)]
               /\ search = [NoParams EXCEPT
                               !.id = Str(EncodeRandomFortuneTimestamp(timer.setAt))]
               /\ GetUrlParams(search) =
                      [mode |-> "fortune", timestamp |-> timer.setAt]

\* The load of ?h=11 at time 125 has ended: the fortune of 125 is shown and
\* the URL holds the fortune token of 125.
C18_Witness ==
    /\ pagePc = "done"
    /\ urlParams.mode = "data"
    /\ urlParams.headband = Num(11)
    /\ timer # None
    /\ timer.setAt = 125
    /\ display.fortuneMessage.kind = "random"
    /\ display.fortuneMessage.message = GetRandomFortuneFromTimestamp(125)
    /\ decoded # GetUrlParamsDecoded(search)
    /\ GetUrlParamsDecoded(search) = [mode |-> "fortune", timestamp |-> 125]

\* The query string holds the id parameter with this token and nothing else.
OnlyId(token) ==
    /\ search.id = Str(token)
    /\ \A legacy \in {"h", "headband", "r", "run"} : search[legacy] = Absent

\* C19: when a load has ended without an error, the query string holds only
\* the id parameter, whose value is encodeId(headband, run) after a fetch and
\* encodeRandomFortuneTimestamp(timestamp) in fortune mode and after the
\* fallback; the legacy parameters h, headband, r and run are gone, a headband
\* from 0 to 10 is read back from the new URL, and the history still has its
\* one entry, which is the new URL.
C19_UrlRewrittenToId ==
    pagePc = "done" =>
        /\ response = "ok" =>
               /\ OnlyId(EncodeId(ToInt32(urlParams.headband), ToInt32(actualRun)))
               /\ urlParams.headband.t = "num" =>
                      GetUrlParams(search) =
                          [mode |-> "data", headband |-> urlParams.headband,
                           run |-> actualRun]
        /\ urlParams.mode = "fortune" =>
               /\ OnlyId(EncodeRandomFortuneTimestamp(urlParams.timestamp))
               /\ GetUrlParams(search) = urlParams
        /\ NoValidHeadband =>
               OnlyId(EncodeRandomFortuneTimestamp(timer.setAt))
        /\ history = <<search>>

\* The load of ?id=<token of 3 and 7>&h=9&r=2 was answered with run 9: the
\* URL is now ?id=<token of 3 and 9>.
C19_Witness ==
    /\ pagePc = "done"
    /\ response = "ok"
    /\ urlParams = [mode |-> "data", headband |-> Num(3), run |-> Num(7)]
    /\ actualRun = Num(9)
    /\ search = [NoParams EXCEPT !.id = Str(EncodeId(3, 9))]
    /\ history = <<search>>

\* The load of ?id=<fortune token of 130>&headband=5 has ended: the legacy
\* parameter is gone.
C19_WitnessFortune ==
    /\ pagePc = "done"
    /\ urlParams = [mode |-> "fortune", timestamp |-> 130]
    /\ search = [NoParams EXCEPT !.id = Str(EncodeRandomFortuneTimestamp(130))]
    /\ history = <<search>>
    /\ display.fortuneMessage.kind = "random"

\* C20: when a load has ended with the data shown, the arrays the pipeline
\* works on are those of the smoothed field for every band whose smoothed
\* field is in the response, and those of the plain field for the others.
C20_SmoothedWheneverPresent ==
    (pagePc = "done" /\ response = "ok") =>
        rawDataArrays = RawDataArrays(SmoothedIfPresent(data))

\* The same for the smoothed fields that are arrays or numbers other than 0.
SmoothedWhenTruthy ==
    (pagePc = "done" /\ response = "ok") =>
        \A band \in Bands :
            TruthyValue(data.smoothed[band]) =>
                rawDataArrays[band] = ToArray(data.smoothed[band])

\* A response with alpha 5 and alpha_smoothed [2, 3, 3] has been shown.
SmoothedWhenTruthyWitness ==
    /\ pagePc = "done"
    /\ response = "ok"
    /\ data.bands["alpha"] = Num(5)
    /\ data.smoothed["alpha"] = Arr(<<2, 3, 3>>)
    /\ rawDataArrays["alpha"] = <<2, 3, 3>>
    /\ display.fortuneMessage.kind = "data"

\* The run the claim of C21 expects in the token: the run field of the
\* response when the response has one, else the run of the URL when the URL
\* has one, else 1.
ReportedRun ==
    IF data.run.t # "undefined" THEN data.run
    ELSE IF urlParams.run.t # "null" THEN urlParams.run
    ELSE Num(1)

\* C21: when a load has ended with the data shown, the token in the URL
\* decodes to the headband asked for and to the run of the response, or, when
\* the response has no run field, to the run of the URL, or, when the URL has
\* none either, to 1.
C21_TokenOfReportedRun ==
    (pagePc = "done" /\ response = "ok") =>
        GetUrlParams(search) =
            [mode |-> "data", headband |-> urlParams.headband, run |-> ReportedRun]

\* The same for a headband that is a number and a run field that is missing
\* or not 0.
TokenOfTruthyRun ==
    (/\ pagePc = "done"
     /\ response = "ok"
     /\ urlParams.headband.t = "num"
     /\ data.run # Num(0)) =>
        GetUrlParams(search) =
            [mode |-> "data", headband |-> urlParams.headband, run |-> ReportedRun]

\* The load of ?h=5 was answered with run 9: the URL holds the token of
\* headband 5 and run 9.
TokenOfTruthyRunWitness ==
    /\ pagePc = "done"
    /\ response = "ok"
    /\ requests = <<[headband |-> Num(5), run |-> Undefined]>>
    /\ data.run = Num(9)
    /\ search = [NoParams EXCEPT !.id = Str(EncodeId(5, 9))]

(***************************************************************************)
(* The band boxes and the peak frequency (rich variant,                    *)
(* updateBrainwaveDisplay and highlightPeakFrequency).  Weights are in     *)
(* tenths, as in the classifier.                                           *)
(***************************************************************************)
MaxBand == 5

\* Math.pow(10, 0.5), Math.pow(21, 0.5), Math.pow((30 + 48) / 2, 0.5),
\* Math.pow(1, 0.5), Math.pow(6, 0.5), in tenths
DisplayWeight == [alpha |-> 32, beta |-> 46, gamma |-> 62, delta |-> 10, theta |-> 24]

\* let adjustedBrainwaves = { alpha: brainwaves.alpha * Math.pow(...), ... }
AdjustedBrainwaves(b) == [wave \in Bands |-> b[wave] * DisplayWeight[wave]]

\* (adjustedBrainwaves.alpha * 100).toFixed(0) after the division by the
\* total; NaN when the total is 0
BoxPercent(adjusted) ==
    LET total == WeightedTotal(adjusted)
    IN  [wave \in Bands |->
            IF total = 0 THEN NaN ELSE Num(Round(100 * adjusted[wave], total))]

\* highlightPeakFrequency(dominantPattern): the band before the first '_' of
\* the label, if the label is not 'balanced' and waveMap has that band
HighlightPeakFrequency(label) ==
    IF label = "balanced" THEN "none"
    ELSE IF \E wave \in Bands : \E n \in 1..Len(label) : SubSeq(label, 1, n) = wave
    THEN CHOOSE wave \in Bands : \E n \in 1..Len(label) : SubSeq(label, 1, n) = wave
    ELSE "none"

nonBoxVars ==
    <<urlVars, tailVars, selectorVars, waveVars, normalizerVars, pageVars,
      straightVars, pipelineVars,
      loadVars>>

InitBoxes ==
    /\ brainwaves \in [Bands -> 0..MaxBand]
    /\ mlAnalysis = NoMl
    /\ activenessArray = <<>>
    /\ activenessState = "unset"
    /\ dominantPattern = "unset"
    /\ classifierPc = "input"
    /\ adjustedBrainwaves = None
    /\ boxPercent = None
    /\ peakFrequency = "unset"

\* updateBrainwaveDisplay from the weighting of the bands to the highlight
UpdateBrainwaveBoxes ==
    /\ classifierPc = "input"
    /\ adjustedBrainwaves' = AdjustedBrainwaves(brainwaves)
    /\ boxPercent' = BoxPercent(adjustedBrainwaves')
    /\ \E a \in ActivenessCases :
          /\ activenessArray' = a
          /\ activenessState' = GetActivenessState(a)
          /\ dominantPattern' = GetDominantPattern(brainwaves, mlAnalysis, a)
    /\ peakFrequency' = HighlightPeakFrequency(dominantPattern')
    /\ classifierPc' = "done"
    /\ UNCHANGED <<brainwaves, mlAnalysis, nonBoxVars>>

NextBoxes == UpdateBrainwaveBoxes

InitBoxesSpec ==
    InitBoxes /\ UrlIdle /\ TailIdle /\ SelectorIdle /\ WaveIdle
        /\ NormalizerIdle /\ PageIdle
        /\ StraightIdle
        /\ PipelineIdle
        /\ LoadIdle

SpecBoxes == InitBoxesSpec /\ [][NextBoxes]_vars

\* C22: for every band record the five proportions updateBrainwaveDisplay
\* shows are the five weighted proportions getDominantPattern compares: band
\* by band, the displayed value over its total equals the classifier's value
\* over its total.
C22_SameWeighting ==
    classifierPc = "done" =>
        LET w == WeightedWaves(brainwaves)
        IN  \A wave \in Bands :
                adjustedBrainwaves[wave] * WeightedTotal(w)
                    = w[wave] * WeightedTotal(adjustedBrainwaves)

\* C28: whenever a band is marked as the peak frequency, no band box shows a
\* larger percentage than the box of that band.
C28_PeakHasLargestPercentage ==
    (classifierPc = "done" /\ peakFrequency \in Bands) =>
        \A wave \in Bands : boxPercent[wave].v <= boxPercent[peakFrequency].v

\* With the bands weighted as the classifier weights them, the band marked has
\* the largest weighted value.
PeakHasLargestClassifierWeight ==
    (classifierPc = "done" /\ peakFrequency \in Bands) =>
        LET w == WeightedWaves(brainwaves)
        IN  \A wave \in Bands : w[wave] <= w[peakFrequency]

\* beta 5 and gamma 4: beta is marked while the boxes show 48% and 52%.
PeakHasLargestClassifierWeightWitness ==
    /\ classifierPc = "done"
    /\ brainwaves = [alpha |-> 0, beta |-> 5, gamma |-> 4, delta |-> 0, theta |-> 0]
    /\ peakFrequency = "beta"
    /\ boxPercent.beta = Num(48)
    /\ boxPercent.gamma = Num(52)

(***************************************************************************)
(* The poor-connection warning (detectLongStraightSections).               *)
(***************************************************************************)
MaxRuns == 3

\* const threshold = 30
Threshold == 30

\* consecutiveCount after the pass of the loop for index i: 1 at the last
\* index up to i whose value differs from the one before it (or at the start
\* of the sequence), and one more for every index since.
ConsecutiveCount(seq, i) ==
    LET resets == {j \in 2..i : seq[j] # seq[j - 1]}
        last == IF resets = {} THEN 1
                ELSE CHOOSE j \in resets : \A k \in resets : k <= j
    IN  i - last + 1

\* The loop over i of one sequence: TRUE when a pass that found data[i] ===
\* data[i - 1] has brought consecutiveCount to the limit.
ScanStraight(seq, limit) ==
    \E i \in 2..Len(seq) :
        seq[i] = seq[i - 1] /\ ConsecutiveCount(seq, i) >= limit

\* The body of the loop over the keys: an entry that is no array or is shorter
\* than the threshold is skipped.
StraightIn(entry, limit) ==
    /\ entry.t = "array"
    /\ Len(entry.a) >= Threshold
    /\ ScanStraight(entry.a, limit)

\* detectLongStraightSections(dataArrays)
DetectLongStraightSections(dataArrays_) ==
    \E wave \in DOMAIN dataArrays_ : StraightIn(dataArrays_[wave], Threshold)

\* n times the value v
Run(v, n) == [i \in 1..n |-> v]

\* Lengths of runs around the threshold.
RunLengths == {1, 29, 30, 31}

\* Sequences of up to MaxRuns runs of the values 1, 2, 1, ...
RECURSIVE RunSeqs(_)
RunSeqs(n) ==
    IF n = 0 THEN {<<>>}
    ELSE RunSeqs(n - 1)
         \cup {s \o Run(1 + (n % 2), len) : s \in RunSeqs(n - 1), len \in RunLengths}

StraightEntries == {Arr(s) : s \in RunSeqs(MaxRuns)} \cup {Num(5)}

nonStraightVars ==
    <<urlVars, tailVars, classifierVars, selectorVars, waveVars, normalizerVars,
      pageVars, boxVars, pipelineVars,
      loadVars>>

InitStraight ==
    /\ straightArrays \in [TailKeys -> StraightEntries]
    /\ hasLongStraightSections = "unset"

\* const hasLongStraightSections = detectLongStraightSections(rawDataArrays)
DetectStraight ==
    /\ hasLongStraightSections = "unset"
    /\ hasLongStraightSections' =
           IF DetectLongStraightSections(straightArrays) THEN "true" ELSE "false"
    /\ UNCHANGED <<straightArrays, nonStraightVars>>

NextStraight == DetectStraight

InitStraightSpec ==
    InitStraight /\ UrlIdle /\ TailIdle /\ ClassifierIdle /\ SelectorIdle
        /\ WaveIdle /\ NormalizerIdle /\ PageIdle /\ BoxesIdle
        /\ PipelineIdle
        /\ LoadIdle

SpecStraight == InitStraightSpec /\ [][NextStraight]_vars

\* The sequence has n equal values in a row somewhere.
HasRunOf(seq, n) ==
    \E i \in 1..(Len(seq) - n + 1) : \A j \in i..(i + n - 1) : seq[j] = seq[i]

\* Some sequence of the map has n equal values in a row.
SomeRunOf(n) ==
    \E wave \in DOMAIN straightArrays :
        /\ straightArrays[wave].t = "array"
        /\ HasRunOf(straightArrays[wave].a, n)

\* C23: detectLongStraightSections returns true exactly when some sequence of
\* the map has more than 30 equal values in a row, that is, 31 of them.
C23_MoreThanThirtyInARow ==
    hasLongStraightSections # "unset" =>
        (hasLongStraightSections = "true" <=> SomeRunOf(Threshold + 1))

\* It returns true exactly when some sequence has 30 equal values in a row.
ThirtyInARow ==
    hasLongStraightSections # "unset" =>
        (hasLongStraightSections = "true" <=> SomeRunOf(Threshold))

\* Exactly 30 equal values in a row and no more: the warning is shown.
ThirtyInARowWitness ==
    /\ hasLongStraightSections = "true"
    /\ SomeRunOf(Threshold)
    /\ ~SomeRunOf(Threshold + 1)

(***************************************************************************)
(* The tail of the activeness array (rich variant, fetchBrainwaveData      *)
(* after rawDataArrays is built).                                          *)
(***************************************************************************)
\* Array.isArray(data.activeness) ? data.activeness
\*     : (data.activeness !== undefined ? [data.activeness] : [])
ActivenessArray(field) ==
    IF field.t = "array" THEN field.a
    ELSE IF field.t # "undefined" THEN <<field.v>>
    ELSE <<>>

\* The activeness array left as it is.
TrimActivenessNever(activeness, removeCount) == activeness

\* if (activenessArray.length > 0 && removeCount > 0)
\*     activenessArray = activenessArray.slice(0, -removeCount)
TrimActiveness(activeness, removeCount) ==
    IF Len(activeness) > 0 /\ removeCount > 0
    THEN SubSeq(activeness, 1, Len(activeness) - removeCount)
    ELSE activeness

\* The values 1, 2, ..., n in this order.
Ramp(n) == [i \in 1..n |-> i]

\* Sequences of the values 1 and 2 for alpha.
AlphaSeqs == SeqsUpTo({1, 2}, MaxLen)

\* What another band may hold beside alpha: the same, ones of the same
\* length, or alpha without its last value.
BesideAlpha(a) ==
    {a, [i \in 1..Len(a) |-> 1], SubSeq(a, 1, IF a = <<>> THEN 0 ELSE Len(a) - 1)}

\* What data.activeness may hold beside alpha: nothing, a number, an array of
\* the same length, a longer one.
ActivenessBeside(a) ==
    {Undefined, Num(3), Arr(Ramp(Len(a))), Arr(Ramp(Len(a) + 1))}

nonPipelineVars ==
    <<urlVars, tailVars, classifierVars, selectorVars, waveVars, normalizerVars,
      pageVars, boxVars, straightVars,
      loadVars>>

InitPipeline ==
    /\ \E a \in AlphaSeqs :
          pipelineInput \in
              [rawDataArrays : {d \in [Bands -> BesideAlpha(a)] : d.alpha = a},
               activeness : ActivenessBeside(a)]
    /\ pipelineOutput = None

\* From the activeness array to the slice of it.
TrimPipeline ==
    /\ pipelineOutput = None
    /\ LET activenessArray_ == ActivenessArray(pipelineInput.activeness)
           originalLength == Len(pipelineInput.rawDataArrays.alpha)
           trimmed == RemoveRepeatedTail(pipelineInput.rawDataArrays)
           newLength == Len(trimmed.alpha)
           removeCount == originalLength - newLength
       IN  pipelineOutput' =
               [rawDataArrays |-> trimmed,
                activenessArray |-> TrimActiveness(activenessArray_, removeCount),
                removeCount |-> removeCount]
    /\ UNCHANGED <<pipelineInput, nonPipelineVars>>

NextPipeline == TrimPipeline

InitPipelineSpec ==
    InitPipeline /\ UrlIdle /\ TailIdle /\ ClassifierIdle /\ SelectorIdle
        /\ WaveIdle /\ NormalizerIdle /\ PageIdle /\ BoxesIdle /\ StraightIdle
        /\ LoadIdle

SpecPipeline == InitPipelineSpec /\ [][NextPipeline]_vars

\* The activeness array and the five band arrays of the input are equally long.
EqualLengthBefore ==
    \A wave \in Bands :
        Len(pipelineInput.rawDataArrays[wave])
            = Len(ActivenessArray(pipelineInput.activeness))

\* C24: if the activeness array and the five band arrays are equally long
\* before the tail is removed, they are equally long afterwards, the
\* activeness array has lost as many trailing entries as each band array, and
\* what is left of it is a prefix of the original.
C24_ActivenessTrimmedAlike ==
    (pipelineOutput # None /\ EqualLengthBefore) =>
        LET before == ActivenessArray(pipelineInput.activeness)
            after == pipelineOutput.activenessArray
        IN  /\ \A wave \in Bands :
                  /\ Len(pipelineOutput.rawDataArrays[wave]) = Len(after)
                  /\ Len(pipelineInput.rawDataArrays[wave])
                         - Len(pipelineOutput.rawDataArrays[wave])
                     = Len(before) - Len(after)
            /\ Len(after) <= Len(before)
            /\ after = SubSeq(before, 1, Len(after))

\* Five band arrays ending in three equal values and an activeness array of
\* the same length: two entries are removed from each.
C24_Witness ==
    /\ pipelineOutput # None
    /\ pipelineInput.rawDataArrays.alpha = <<1, 2, 2, 2>>
    /\ pipelineInput.rawDataArrays.beta = <<1, 1, 1, 1>>
    /\ pipelineInput.activeness = Arr(<<1, 2, 3, 4>>)
    /\ EqualLengthBefore
    /\ pipelineOutput.removeCount = 2
    /\ pipelineOutput.activenessArray = <<1, 2>>
    /\ pipelineOutput.rawDataArrays.alpha = <<1, 2>>

\* The closed set of labels: a band and an activeness state joined by '_',
\* and 'balanced'.
PatternLabels ==
    {band \o "_" \o state : band \in Bands, state \in ActivenessStates}
        \cup {"balanced"}

\* C25: the label the rich classifier returns is one of the closed set, every
\* label of the closed set is a key of the message bank, and the list of the
\* returned label is not empty and is the one getRandomFortune reads, not the
\* list of 'balanced' taken as a fallback.
C25_LabelInMessageBank ==
    classifierPc = "done" =>
        /\ dominantPattern \in PatternLabels
        /\ PatternLabels \subseteq CategoryNames
        /\ Len(Fortunes(dominantPattern)) > 0
        /\ CategoryFortunes(dominantPattern) = Fortunes(dominantPattern)
        /\ GetRandomFortune(dominantPattern, NoBands, NoMl)
               = Message(dominantPattern, 0)

\* A band is dominant and there are no activeness samples: the label is the
\* generic one of the band and the message comes from its own list.
C25_Witness ==
    /\ classifierPc = "done"
    /\ activenessArray = <<>>
    /\ dominantPattern = "delta_generic"
    /\ GetRandomFortune(dominantPattern, NoBands, NoMl) = Message("delta_generic", 0)

\* The headband read from the URL is an integer from 0 to 10.
HeadbandInRange ==
    /\ urlParams.mode = "data"
    /\ urlParams.headband.t = "num"
    /\ urlParams.headband.v \in 0..10

\* C26: a request is sent only for a headband that is an integer from 0 to
\* 10; with any other headband, one that is not a number included, the load
\* takes the random-fortune fallback and sends no request.
C26_RequestOnlyForHeadbandInRange ==
    /\ requests # <<>> => HeadbandInRange
    /\ (urlParams.mode = "data" /\ ~HeadbandInRange) =>
           pagePc \in {"timer", "done"} /\ requests = <<>>

\* A request is sent only for a headband from 0 to 10 or one that is NaN.
RequestForHeadbandInRangeOrNaN ==
    requests # <<>> =>
        (HeadbandInRange \/ (urlParams.mode = "data" /\ urlParams.headband = NaN))

\* The load of ?h=abc&r=2 has sent a request whose headband is NaN.
RequestForHeadbandInRangeOrNaNWitness ==
    /\ search.h = Str(<<97, 98, 99>>)
    /\ urlParams.mode = "data"
    /\ urlParams.headband = NaN
    /\ requests = <<[headband |-> NaN, run |-> Num(2)]>>
    /\ pagePc = "fetch"

(***************************************************************************)
(* Loading the page again from the URL a random fortune left (SpecReload). *)
(***************************************************************************)
MaxLoads == 3

\* The visitor loads the page again from the URL the last load wrote, after
\* a load that ended with a random fortune: the script starts anew.
Reload ==
    /\ pagePc = "done"
    /\ display.fortuneMessage.kind = "random"
    /\ loads < MaxLoads
    /\ loads' = loads + 1
    /\ shown' = Append(shown, [message |-> display.fortuneMessage.message,
                               search |-> search])
    /\ loadedSearch' = search
    /\ lastWrite' = None
    /\ urlParams' = None
    /\ decoded' = None
    /\ pagePc' = "ready"
    /\ display' = InitialDisplay
    /\ requests' = <<>>
    /\ response' = "none"
    /\ data' = None
    /\ rawDataArrays' = None
    /\ actualRun' = None
    /\ timer' = None
    /\ capturedTimestamp' = None
    /\ caught' = 0
    /\ UNCHANGED <<search, pending, clock, history, tailVars, classifierVars,
                   selectorVars, waveVars, normalizerVars, boxVars, straightVars,
                   pipelineVars>>

NextReload == NextPage \/ Reload

SpecReload == InitPageSpec /\ [][NextReload]_vars

LoadStep == LoadFortune \/ LoadFallback \/ LoadData

\* The script of a loaded page runs.  This is weak fairness of LoadStep, which
\* is enabled exactly while pagePc = "ready", written with that condition in
\* the place of ENABLED <<LoadStep>>_vars.
ScriptRuns == []<>(pagePc # "ready") \/ []<><<LoadStep>>_vars

\* The page load with every step that can be taken taken in the end: the
\* script runs, time passes and the timeout fires, the fetch settles and the
\* reading of its body settles.
FairSpecPage ==
    /\ SpecPage
    /\ ScriptRuns
    /\ WF_vars(Tick \/ TimerFires)
    /\ WF_vars(FetchRejects \/ FetchNotOk \/ FetchOk)
    /\ WF_vars(JsonRejects \/ JsonResolvesNull \/ JsonResolves)

\* The loading dots are hidden, the panel is shown, and the message is a
\* fortune of the data, a random fortune or the apology.
FinalDisplay ==
    /\ display.loadingDots = "none"
    /\ display.dataPanel = "shown"
    /\ display.fortuneMessage.kind \in {"data", "random", "apology"}

RequestFailed ==
    /\ pagePc = "failed"
    /\ Len(requests) = 1
    /\ response \in {"rejected", "notOk"}

\* C30: when the request fails with a non-OK status or a rejected fetch, the
\* page URL is as it was at load time: the query string is the one the load
\* started with, nothing was written to it and the one history entry still
\* holds it.
C30_UrlUntouchedOnFailure ==
    RequestFailed =>
        /\ search = loadedSearch
        /\ lastWrite = None
        /\ history = <<loadedSearch>>

\* The load of ?id=!&h=5&r=2 has failed on a status that is not OK, and the
\* three parameters are still in the URL.
C30_Witness ==
    /\ RequestFailed
    /\ response = "notOk"
    /\ requests = <<[headband |-> Num(5), run |-> Num(2)]>>
    /\ search = [NoParams EXCEPT !.id = Str(<<33>>), !.h = Str(<<53>>),
                                 !.r = Str(<<50>>)]
    /\ history = <<search>>

\* The load of ?h=5 has failed on a rejected fetch.
C30_WitnessRejected ==
    /\ RequestFailed
    /\ response = "rejected"
    /\ search = [NoParams EXCEPT !.h = Str(<<53>>)]
    /\ history = <<search>>

====
